---- MODULE Spec2Model ----
(***************************************************************************)
(* The Zalo webhook endpoint, its event deduplication cache, the           *)
(* background processing unit and the pending-registration approval        *)
(* workflow of auto-pm (src/app/routers/webhooks.py and                    *)
(* src/services/zalo_webhook_service.py).                                  *)
(*                                                                         *)
(* The endpoint and every processing unit are coroutines of one asyncio    *)
(* event loop: code between two awaits runs without interruption, so one   *)
(* action of this module is one stretch of code from a resumption to the   *)
(* next await.  An external call (a send, a download) is issued at the end *)
(* of the stretch that reaches it.                                         *)
(***************************************************************************)
EXTENDS Integers, Sequences, FiniteSets, TLC

VARIABLES now, processed_events, deliveries, units, pending_registrations,
          cv_cache, files, users, next_uuid, analyzer_calls, send_failed

vars == <<now, processed_events, deliveries, units, pending_registrations,
          cv_cache, files, users, next_uuid, analyzer_calls, send_failed>>

----------------------------------------------------------------------------
(* Bounds of the model *)

MaxDeliveries == 3

MaxTime == 4

MaxAttachments == 3

(* timedelta(hours=1), in clock ticks of half an hour *)
TTL == 2

----------------------------------------------------------------------------
(* Python string operations, on TLA+ strings *)

LowerChars == "abcdefghijklmnopqrstuvwxyz"

UpperChars == "ABCDEFGHIJKLMNOPQRSTUVWXYZ"

CharAt(s, i) == SubSeq(s, i, i)

RECURSIVE MapChar(_, _, _, _)
MapChar(c, from, to, i) ==
    IF i > Len(from) THEN c
    ELSE IF CharAt(from, i) = c THEN CharAt(to, i)
    ELSE MapChar(c, from, to, i + 1)

RECURSIVE MapStr(_, _, _)
MapStr(s, from, to) ==
    IF Len(s) = 0 THEN ""
    ELSE MapChar(CharAt(s, 1), from, to, 1) \o MapStr(Tail(s), from, to)

(* str.upper() and str.lower() *)
Upper(s) == MapStr(s, LowerChars, UpperChars)

(* A case folding that folds nothing *)
Unfolded(s) == s

Lower(s) == MapStr(s, UpperChars, LowerChars)

(* The characters str.strip() removes, of those the payloads use *)
Whitespace == {" ", "\t", "\n"}

RECURSIVE LStrip(_)
LStrip(s) ==
    IF Len(s) > 0 /\ CharAt(s, 1) \in Whitespace THEN LStrip(Tail(s)) ELSE s

RECURSIVE RStrip(_)
RStrip(s) ==
    IF Len(s) > 0 /\ CharAt(s, Len(s)) \in Whitespace
    THEN RStrip(SubSeq(s, 1, Len(s) - 1)) ELSE s

(* str.strip() *)
Strip(s) == RStrip(LStrip(s))

(* str.startswith(p), str.endswith(p) *)
StartsWith(s, p) == Len(s) >= Len(p) /\ SubSeq(s, 1, Len(p)) = p

EndsWith(s, p) ==
    Len(s) >= Len(p) /\ SubSeq(s, Len(s) - Len(p) + 1, Len(s)) = p

(* s.rsplit(" ", 1)[1]: what follows the last space of s *)
RECURSIVE AfterLastSpace(_)
AfterLastSpace(s) ==
    IF Len(s) = 0 THEN ""
    ELSE IF CharAt(s, Len(s)) = " " THEN ""
    ELSE AfterLastSpace(SubSeq(s, 1, Len(s) - 1)) \o CharAt(s, Len(s))

(* s.split(" ", 1)[1]: what follows the first space of s *)
RECURSIVE AfterFirstSpace(_)
AfterFirstSpace(s) ==
    IF Len(s) = 0 THEN ""
    ELSE IF CharAt(s, 1) = " " THEN Tail(s)
    ELSE AfterFirstSpace(Tail(s))

(* re.search of a literal: p occurs somewhere in s *)
Contains(s, p) ==
    \E i \in 1..(Len(s) + 1) :
        i + Len(p) - 1 <= Len(s) /\ SubSeq(s, i, i + Len(p) - 1) = p

----------------------------------------------------------------------------
(* Webhook payloads.  A field the payload does not carry is Missing (the   *)
(* code's .get default applies); a field that is JSON null is Null.        *)

Missing == "<missing>"

Null == "<null>"

(* The configured HR identity, os.getenv("HR_USER_ID") *)
hr_user_id == "hr"

(* dict.get(key, default) of a payload field *)
Get(v, default) == IF v = Missing THEN default ELSE v

(* request.get(outer, {}).get(inner, default): raises when outer is null *)
Raises(outer) == outer = Null

Request(event_name, sender, follower, msg_id, timestamp, text, attachments) ==
    [json |-> "object", event_name |-> event_name, sender |-> sender,
     follower |-> follower, msg_id |-> msg_id, timestamp |-> timestamp,
     text |-> text, attachments |-> attachments]

(* One entry of message.attachments *)
Attachment(type, name) == [type |-> type, name |-> name]

(* A request body that is not a JSON object *)
NotAnObject == [Request(Missing, Missing, Missing, Missing, Missing, Missing,
                        <<>>) EXCEPT !.json = "array"]

(* A key derivation that ignores msg_id *)
generate_event_id_by_timestamp(request) ==
    Get(request.event_name, "") \o "_" \o Get(request.timestamp, "") \o "_"
        \o Get(request.sender, "")

(* A key derivation that takes the id of a follow event from its follower *)
generate_event_id_by_follower(request) ==
    LET event_name == Get(request.event_name, "")
        timestamp  == Get(request.timestamp, "")
        sender_id  == IF event_name = "follow"
                      THEN Get(request.follower, "")
                      ELSE Get(request.sender, "")
        msg_id     == Get(request.msg_id, "")
    IN  IF msg_id /= ""
        THEN event_name \o "_" \o msg_id \o "_" \o sender_id
        ELSE event_name \o "_" \o timestamp \o "_" \o sender_id

(* generate_event_id: the dedup key of a payload *)
generate_event_id(request) ==
    LET event_name == Get(request.event_name, "")
        timestamp  == Get(request.timestamp, "")
        sender_id  == Get(request.sender, "")
        msg_id     == Get(request.msg_id, "")
    IN  IF msg_id /= ""
        THEN event_name \o "_" \o msg_id \o "_" \o sender_id
        ELSE event_name \o "_" \o timestamp \o "_" \o sender_id

----------------------------------------------------------------------------
(* The dedup cache: processed_events maps an event key to the time it was  *)
(* marked.                                                                 *)

(* A pruning that forgets every key *)
cleanup_everything(events, t) == [event_id \in {} |-> 0]

(* A pruning that also drops the keys marked exactly one hour ago *)
cleanup_at_one_hour(events, t) ==
    [event_id \in {k \in DOMAIN events : events[k] > t - TTL} |->
        events[event_id]]

(* cleanup_old_events: drop the keys marked before now - 1 hour *)
cleanup_old_events(events, t) ==
    LET cutoff == t - TTL
        to_remove == {event_id \in DOMAIN events : events[event_id] < cutoff}
    IN  [event_id \in (DOMAIN events) \ to_remove |-> events[event_id]]

(* A marking that is lost *)
mark_event_lost(events, event_id, t) == events

(* processed_events[event_id] = datetime.now() *)
mark_event(events, event_id, t) ==
    [k \in (DOMAIN events) \cup {event_id} |->
        IF k = event_id THEN t ELSE events[k]]

(* What a unit did, in the order it did it *)
Effect(e, to, msg, reg) == [e |-> e, to |-> to, msg |-> msg, reg |-> reg]

(* A unit whose first reply is sent by the endpoint itself, while it is
   accepting the event *)
NewUnit_replying(request, event_id) ==
    [request |-> request, event_id |-> event_id, pc |-> "scheduled",
     action |-> "", registration_id |-> "", user_id |-> "", user_role |-> "",
     file_name |-> "", file_type |-> "", cv_path |-> "",
     effects |-> <<Effect("send", Get(request.sender, ""), "received", "")>>,
     after_removal |-> FALSE, error |-> FALSE, raised |-> "",
     escaped |-> FALSE]

(* A unit the endpoint has already run to its end when it answers *)
NewUnit_awaited(request, event_id) ==
    [request |-> request, event_id |-> event_id, pc |-> "done",
     action |-> "", registration_id |-> "", user_id |-> "", user_role |-> "",
     file_name |-> "", file_type |-> "", cv_path |-> "", effects |-> <<>>,
     after_removal |-> FALSE, error |-> FALSE, raised |-> "",
     escaped |-> FALSE]

(* The unit background_tasks.add_task(process_webhook_async, request, event_id)
   schedules *)
NewUnit(request, event_id) ==
    [request |-> request, event_id |-> event_id, pc |-> "scheduled",
     action |-> "", registration_id |-> "", user_id |-> "", user_role |-> "",
     file_name |-> "", file_type |-> "", cv_path |-> "", effects |-> <<>>,
     after_removal |-> FALSE, error |-> FALSE, raised |-> "",
     escaped |-> FALSE]

Response(request, http, status, event_id, message, unit) ==
    [request |-> request, http |-> http, status |-> status,
     event_id |-> event_id, message |-> message, unit |-> unit, at |-> now]

(* A reply to a repeated delivery that says "duplicate" *)
DuplicateResponse_duplicate(request) ==
    Response(request, 200, "duplicate", "", "Event already processed", 0)

(* return {"status": "ok", "message": "Event already processed"} *)
DuplicateResponse(request) ==
    Response(request, 200, "ok", "", "Event already processed", 0)

(* An endpoint that marks the key of a repeated delivery again *)
zalo_webhook_refreshing(request) ==
    /\ Len(deliveries) < MaxDeliveries
    /\ UNCHANGED <<now, pending_registrations, cv_cache, files, users,
                   next_uuid, analyzer_calls, send_failed>>
    /\ IF request.json /= "object"
       THEN /\ deliveries' = Append(deliveries,
                    Response(request, 422, "", "", "validation", 0))
            /\ UNCHANGED <<processed_events, units>>
       ELSE LET cleaned == cleanup_old_events(processed_events, now) IN
            IF Raises(request.sender) \/ Raises(request.msg_id)
            THEN /\ processed_events' = cleaned
                 /\ deliveries' = Append(deliveries,
                        Response(request, 200, "error", "",
                                 "Internal error, will not retry", 0))
                 /\ UNCHANGED units
            ELSE LET event_id == generate_event_id(request) IN
                 IF event_id \in DOMAIN cleaned
                 THEN /\ processed_events' = mark_event(cleaned, event_id, now)
                      /\ deliveries' = Append(deliveries,
                            DuplicateResponse(request))
                      /\ UNCHANGED units
                 ELSE /\ processed_events' = mark_event(cleaned, event_id, now)
                      /\ units' = Append(units, NewUnit(request, event_id))
                      /\ deliveries' = Append(deliveries,
                            Response(request, 200, "ok", event_id, "",
                                     Len(units) + 1))

(* POST /api/zalo/webhook.  FastAPI validates the body against the parameter
   `request: dict` before the handler runs (422 otherwise); the handler has
   no await, so it runs as one step of the event loop. *)
zalo_webhook(request) ==
    /\ Len(deliveries) < MaxDeliveries
    /\ UNCHANGED <<now, pending_registrations, cv_cache, files, users,
                   next_uuid, analyzer_calls, send_failed>>
    /\ IF request.json /= "object"
       THEN /\ deliveries' = Append(deliveries,
                    Response(request, 422, "", "", "validation", 0))
            /\ UNCHANGED <<processed_events, units>>
       ELSE LET cleaned == cleanup_old_events(processed_events, now) IN
            IF Raises(request.sender) \/ Raises(request.msg_id)
            THEN (* except Exception: still return 200 *)
                 /\ processed_events' = cleaned
                 /\ deliveries' = Append(deliveries,
                        Response(request, 200, "error", "",
                                 "Internal error, will not retry", 0))
                 /\ UNCHANGED units
            ELSE LET event_id == generate_event_id(request) IN
                 IF event_id \in DOMAIN cleaned
                 THEN /\ processed_events' = cleaned
                      /\ deliveries' = Append(deliveries,
                            DuplicateResponse(request))
                      /\ UNCHANGED units
                 ELSE /\ processed_events' = mark_event(cleaned, event_id, now)
                      /\ units' = Append(units, NewUnit(request, event_id))
                      /\ deliveries' = Append(deliveries,
                            Response(request, 200, "ok", event_id, "",
                                     Len(units) + 1))

(* Time passes *)
Tick ==
    /\ now < MaxTime
    /\ now' = now + 1
    /\ UNCHANGED <<processed_events, deliveries, units, pending_registrations,
                   cv_cache, files, users, next_uuid, analyzer_calls,
                   send_failed>>

Init ==
    /\ now = 0
    /\ processed_events = [k \in {} |-> 0]
    /\ deliveries = <<>>
    /\ units = <<>>
    /\ pending_registrations = [k \in {} |-> 0]
    /\ cv_cache = [k \in {} |-> 0]
    /\ files = {}
    /\ users = <<>>
    /\ next_uuid = 1
    /\ analyzer_calls = <<>>
    /\ send_failed = FALSE

----------------------------------------------------------------------------
(* The state a processing unit works on, as one record: the unit itself and
   the shared stores.  A handler is an operator from this record to the
   record after it ran. *)

(* The registration ids some unit has removed from the store *)
RemovedIds ==
    UNION {{units[u].effects[i].reg :
                i \in {j \in 1..Len(units[u].effects) :
                          units[u].effects[j].e = "remove"}} :
           u \in 1..Len(units)}

World(u) ==
    [unit |-> units[u], removed |-> RemovedIds,
     processed_events |-> processed_events,
     pending |-> pending_registrations,
     cv_cache |-> cv_cache, files |-> files, users |-> users,
     next_uuid |-> next_uuid, analyzer_calls |-> analyzer_calls,
     send_failed |-> send_failed]

Commit(u, w) ==
    /\ units' = [units EXCEPT ![u] = w.unit]
    /\ processed_events' = w.processed_events
    /\ pending_registrations' = w.pending
    /\ cv_cache' = w.cv_cache
    /\ files' = w.files
    /\ users' = w.users
    /\ next_uuid' = w.next_uuid
    /\ analyzer_calls' = w.analyzer_calls
    /\ send_failed' = w.send_failed

Do(w, effect) == [w EXCEPT !.unit.effects = Append(@, effect)]

(* The unit suspends at an await, or ends *)
Goto(w, pc) == [w EXCEPT !.unit.pc = pc]

(* A send whose failure undoes the registration the unit works on *)
send_message_rollback(w, user_id, text, reg, ok) ==
    Do([w EXCEPT !.send_failed = @ \/ ~ok,
                 !.pending =
                     IF ok \/ w.unit.registration_id \notin DOMAIN @ THEN @
                     ELSE [k \in (DOMAIN @) \ {w.unit.registration_id} |->
                              @[k]]],
       Effect("send", user_id, text, reg))

(* ZaloService.send_message: never raises, returns whether the platform
   accepted the message (ok).  No caller reads the result; send_failed
   remembers that some send returned False. *)
send_message(w, user_id, text, reg, ok) ==
    Do([w EXCEPT !.send_failed = @ \/ ~ok],
       Effect("send", user_id, text, reg))

(* An exception handler that forgets the event's key, so that the platform's
   retry would be processed *)
process_webhook_async_except_unmark(w) ==
    [w EXCEPT !.unit.pc = "done", !.unit.error = TRUE,
              !.processed_events =
                  [k \in (DOMAIN @) \ {w.unit.event_id} |-> @[k]]]

(* No exception handler: the exception leaves the unit *)
process_webhook_async_except_escape(w) ==
    [w EXCEPT !.unit.pc = "done", !.unit.error = TRUE, !.unit.escaped = TRUE]

(* An exception handler that discards the registration the failed unit was
   working on *)
process_webhook_async_except_discard(w) ==
    [w EXCEPT !.unit.pc = "done", !.unit.error = TRUE,
              !.pending =
                  [k \in (DOMAIN @) \ {w.unit.registration_id} |-> @[k]]]

(* process_webhook_async, except Exception: the error is logged and the
   unit ends *)
process_webhook_async_except(w) ==
    [w EXCEPT !.unit.pc = "done", !.unit.error = TRUE]

(* An exception of class exc propagates out of the handlers, which log it
   and re-raise it, to the except clause of the unit *)
Raise(w, exc) == process_webhook_async_except([w EXCEPT !.unit.raised = exc])

(* process_webhook_async reaches its last statement *)
process_webhook_async_end(w) == Goto(w, "done")

----------------------------------------------------------------------------
(* The registration store *)

(* An id generator that returns the same token every time *)
uuid4_fixed(n) == "r1"

(* str(uuid.uuid4()): a token no earlier call returned *)
uuid4(n) == "r" \o ToString(n)

(* A store that also stamps the candidate's earlier records with the time
   after the new upload *)
store_pending_registration_touching(w, cv_data, cv_path, user_id_zalo, t) ==
    LET registration_id == uuid4(w.next_uuid)
        record == [cv_data |-> cv_data, cv_path |-> cv_path,
                   user_id_zalo |-> user_id_zalo, timestamp |-> t]
    IN  Do([w EXCEPT
              !.pending = [k \in (DOMAIN w.pending) \cup {registration_id} |->
                              IF k = registration_id THEN record
                              ELSE IF w.pending[k].user_id_zalo = user_id_zalo
                              THEN [w.pending[k] EXCEPT !.timestamp = t + 1]
                              ELSE w.pending[k]],
              !.next_uuid = @ + 1,
              !.unit.registration_id = registration_id],
           Effect("store", user_id_zalo, "", registration_id))

(* store_pending_registration *)
store_pending_registration(w, cv_data, cv_path, user_id_zalo, t) ==
    LET registration_id == uuid4(w.next_uuid)
        record == [cv_data |-> cv_data, cv_path |-> cv_path,
                   user_id_zalo |-> user_id_zalo, timestamp |-> t]
    IN  Do([w EXCEPT
              !.pending = [k \in (DOMAIN w.pending) \cup {registration_id} |->
                              IF k = registration_id THEN record
                              ELSE w.pending[k]],
              !.next_uuid = @ + 1,
              !.unit.registration_id = registration_id],
           Effect("store", user_id_zalo, "", registration_id))

(* The unit remembers whether the id it is about to look up had already been
   removed from the store *)
Lookup(w) ==
    [w EXCEPT !.unit.after_removal = w.unit.registration_id \in w.removed]

(* A lookup that answers an unknown id with an empty record instead of None *)
get_pending_registration_or_default(pending, registration_id) ==
    IF registration_id \in DOMAIN pending
    THEN <<pending[registration_id]>>
    ELSE <<[cv_data |-> [name |-> "Unknown", email |-> Null, phone |-> Null,
                         description |-> ""],
            cv_path |-> "", user_id_zalo |-> "", timestamp |-> 0]>>

(* get_pending_registration: the record, or None (the empty sequence) *)
get_pending_registration(pending, registration_id) ==
    IF registration_id \in DOMAIN pending
    THEN <<pending[registration_id]>> ELSE <<>>

(* A removal that leaves the record in the store *)
remove_pending_registration_kept(pending, registration_id) == pending

(* remove_pending_registration *)
remove_pending_registration(pending, registration_id) ==
    IF registration_id \in DOMAIN pending
    THEN [k \in (DOMAIN pending) \ {registration_id} |-> pending[k]]
    ELSE pending

----------------------------------------------------------------------------
(* Accounts *)

(* None *)
None == Null

(* "@" in s *)
HasAt(s) == Contains(s, "@")

(* pydantic EmailStr: None is accepted (Optional), anything else must be
   an address *)
EmailStrValid(email) ==
    email = None \/ (HasAt(email) /\ ~StartsWith(email, "@")
                                  /\ ~EndsWith(email, "@"))

(* UserCreate(...): raises ValidationError on an empty name or a malformed
   email *)
UserCreateValid(cv_data) == Len(cv_data.name) >= 1 /\ EmailStrValid(cv_data.email)

(* ProjectService.create_user: the exception it raises ("" for none) and the
   users table after it *)
create_user(table, user_data, db) ==
    IF db /= "ok" THEN [raised |-> "SQLAlchemyError", users |-> table]
    ELSE IF \E i \in 1..Len(table) : table[i].email = user_data.email
    THEN [raised |-> "ValueError", users |-> table]
    ELSE IF user_data.email = None
    THEN (* "@" not in None *)
         [raised |-> "TypeError", users |-> table]
    ELSE IF ~HasAt(user_data.email)
    THEN [raised |-> "ValueError", users |-> table]
    ELSE [raised |-> "",
          users |-> Append(table,
                      [id |-> "u" \o ToString(Len(table) + 1),
                       name |-> user_data.name, email |-> user_data.email,
                       phone |-> user_data.phone, cv |-> user_data.cv])]

----------------------------------------------------------------------------
(* process_webhook_async: the approval step *)

(* elif result.get("action") == "hr_approved", up to its first await *)
hr_approved(w0, ok, db) ==
    LET w == Lookup(w0)
        registration_id == w.unit.registration_id
        pending == get_pending_registration(w.pending, registration_id)
    IN  IF pending = <<>>
        THEN Goto(send_message(w, hr_user_id, "not_found", registration_id,
                               ok), "return")
        ELSE LET cv_data == pending[1].cv_data
                 user_id_zalo == pending[1].user_id_zalo
                 user_create_data ==
                     [name |-> cv_data.name, email |-> cv_data.email,
                      phone |-> cv_data.phone, cv |-> pending[1].cv_path]
             IN  IF ~UserCreateValid(cv_data)
                 THEN Raise(w, "ValidationError")
                 ELSE LET r == create_user(w.users, user_create_data, db) IN
                      IF r.raised = "ValueError"
                      THEN Goto(send_message(w, hr_user_id, "create_failed",
                                             registration_id, ok), "last_send")
                      ELSE IF r.raised /= ""
                      THEN Raise(w, r.raised)
                      ELSE LET created ==
                                  Do([w EXCEPT !.users = r.users],
                                     Effect("create_user", user_id_zalo,
                                            user_create_data.email,
                                            registration_id))
                               removed ==
                                  Do([created EXCEPT !.pending =
                                        remove_pending_registration(
                                            created.pending, registration_id)],
                                     Effect("remove", user_id_zalo, "",
                                            registration_id))
                           IN  Goto(send_message(removed, user_id_zalo,
                                        "approved", registration_id, ok),
                                    "approved")

(* A decline that reads the record and notifies the candidate but leaves the
   removal to a later step *)
hr_declined_without_removal(w0, ok) ==
    LET w == Lookup(w0)
        registration_id == w.unit.registration_id
        pending == get_pending_registration(w.pending, registration_id)
    IN  IF pending = <<>>
        THEN Goto(send_message(w, hr_user_id, "not_found", registration_id,
                               ok), "return")
        ELSE Goto(send_message(w, pending[1].user_id_zalo, "declined",
                               registration_id, ok), "declined")

(* A decline that notifies the candidate before it removes the record *)
hr_declined_notify_first(w0, ok) ==
    LET w == Lookup(w0)
        registration_id == w.unit.registration_id
        pending == get_pending_registration(w.pending, registration_id)
    IN  IF pending = <<>>
        THEN Goto(send_message(w, hr_user_id, "not_found", registration_id,
                               ok), "return")
        ELSE LET user_id_zalo == pending[1].user_id_zalo
                 told == send_message(w, user_id_zalo, "declined",
                                      registration_id, ok)
             IN  Goto(Do([told EXCEPT !.pending =
                            remove_pending_registration(told.pending,
                                                        registration_id)],
                         Effect("remove", user_id_zalo, "", registration_id)),
                      "declined")

(* A decline that notifies the candidate of the registration stored last *)
hr_declined_to_latest(w0, ok) ==
    LET w == Lookup(w0)
        registration_id == w.unit.registration_id
        pending == get_pending_registration(w.pending, registration_id)
    IN  IF pending = <<>>
        THEN Goto(send_message(w, hr_user_id, "not_found", registration_id,
                               ok), "return")
        ELSE LET latest ==
                    CHOOSE k \in DOMAIN w.pending :
                        \A j \in DOMAIN w.pending :
                            \/ w.pending[j].timestamp < w.pending[k].timestamp
                            \/ /\ w.pending[j].timestamp
                                      = w.pending[k].timestamp
                               /\ (j = k \/ j = registration_id)
                 user_id_zalo == w.pending[latest].user_id_zalo
                 removed ==
                    Do([w EXCEPT !.pending =
                          remove_pending_registration(w.pending,
                                                      registration_id)],
                       Effect("remove", user_id_zalo, "", registration_id))
             IN  Goto(send_message(removed, user_id_zalo, "declined",
                                   registration_id, ok), "declined")

(* elif result.get("action") == "hr_declined", up to its first await *)
hr_declined(w0, ok) ==
    LET w == Lookup(w0)
        registration_id == w.unit.registration_id
        pending == get_pending_registration(w.pending, registration_id)
    IN  IF pending = <<>>
        THEN Goto(send_message(w, hr_user_id, "not_found", registration_id,
                               ok), "return")
        ELSE LET user_id_zalo == pending[1].user_id_zalo
                 removed ==
                    Do([w EXCEPT !.pending =
                          remove_pending_registration(w.pending,
                                                      registration_id)],
                       Effect("remove", user_id_zalo, "", registration_id))
             IN  Goto(send_message(removed, user_id_zalo, "declined",
                                   registration_id, ok), "declined")

(* A cv_received step that tells the candidate before it stores the
   registration *)
cv_received_notify_first(w, cv_data, ok, t) ==
    LET told == send_message(w, w.unit.user_id, "pending",
                             uuid4(w.next_uuid), ok)
    IN  Goto(store_pending_registration(told, cv_data, w.unit.cv_path,
                                        w.unit.user_id, t), "pending_sent")

(* if result.get("action") == "cv_received", up to its first await *)
cv_received(w, cv_data, ok, t) ==
    LET stored == store_pending_registration(w, cv_data, w.unit.cv_path,
                                             w.unit.user_id, t)
    IN  Goto(send_message(stored, w.unit.user_id, "pending",
                          stored.unit.registration_id, ok), "pending_sent")

----------------------------------------------------------------------------
(* Roles and file classification *)

(* The user directory: the stored role of each channel id that has a user
   record ("" when the record's role is unset) *)
DirectoryRoles ==
    [m1 |-> "manager", s1 |-> "staff", s2 |-> "", hr |-> "manager"]

(* ProjectService.get_user_by_zalo_id: the record's role, as a sequence of
   at most one element *)
get_user_by_zalo_id(zalo_user_id) ==
    IF zalo_user_id \in DOMAIN DirectoryRoles
    THEN <<DirectoryRoles[zalo_user_id]>> ELSE <<>>

(* A role resolution that asks the directory first *)
_get_user_role_directory_first(zalo_user_id) ==
    IF zalo_user_id \in DOMAIN DirectoryRoles
    THEN (IF DirectoryRoles[zalo_user_id] /= ""
          THEN DirectoryRoles[zalo_user_id] ELSE "staff")
    ELSE IF zalo_user_id = hr_user_id THEN "hr" ELSE "unknown"

(* _get_user_role *)
_get_user_role(zalo_user_id) ==
    IF zalo_user_id = hr_user_id THEN "hr"
    ELSE LET user == get_user_by_zalo_id(zalo_user_id) IN
         IF user /= <<>>
         THEN (IF user[1] /= "" THEN user[1] ELSE "staff")
         ELSE "unknown"

(* re.search(pattern, s) for the patterns xx[-_\.] *)
ContainsWithSeparator(s, word) ==
    \E sep \in {"-", "_", "."} : Contains(s, word \o sep)

(* re.search(pattern, s) for the patterns a[-_]b *)
ContainsJoined(s, a, b) ==
    \E sep \in {"-", "_"} : Contains(s, a \o sep \o b)

(* A classification by the file name alone *)
_detect_file_type_ungated(file_name, user_role) ==
    IF Contains(Lower(file_name), "cv") \/ Contains(Lower(file_name), "resume")
    THEN "cv"
    ELSE IF Contains(Lower(file_name), "wbs")
              \/ Contains(Lower(file_name), "plan")
    THEN "wbs"
    ELSE "unknown"

(* _detect_file_type *)
_detect_file_type(file_name, user_role) ==
    LET file_name_lower == Lower(file_name)
        cv == \/ ContainsWithSeparator(file_name_lower, "cv")
              \/ \E pre \in {"-", "_"} :
                    ContainsWithSeparator(file_name_lower, pre \o "cv")
              \/ StartsWith(file_name_lower, "cv.")
              \/ Contains(file_name_lower, "resume")
              \/ Contains(file_name_lower, "curriculum")
              \/ ContainsJoined(file_name_lower, "ho", "so")
        wbs == \/ ContainsWithSeparator(file_name_lower, "wbs")
               \/ \E pre \in {"-", "_"} :
                     ContainsWithSeparator(file_name_lower, pre \o "wbs")
               \/ StartsWith(file_name_lower, "wbs.")
               \/ ContainsJoined(file_name_lower, "work", "breakdown")
               \/ \E s1 \in {"-", "_"}, s2 \in {"-", "_"}, s3 \in {"-", "_"} :
                     Contains(file_name_lower,
                        "phan" \o s1 \o "chia" \o s2 \o "cong" \o s3 \o "viec")
               \/ ContainsJoined(file_name_lower, "ke", "hoach")
               \/ ContainsJoined(file_name_lower, "task", "breakdown")
               \/ ContainsJoined(file_name_lower, "project", "plan")
    IN  IF user_role \in {"hr", "unknown"} /\ cv THEN "cv"
        ELSE IF user_role = "manager" /\ wbs THEN "wbs"
        ELSE "unknown"

----------------------------------------------------------------------------
(* CV ingestion *)

(* The fields of analysis_cv.Candidate *)
CandidateFields ==
    {"id", "name", "role", "email", "experience_years", "experience_level",
     "skills", "strengths", "projects", "note"}

(* What GenCVAnalyzer.query extracts from a document *)
AnalyzedCandidate == [name |-> "An", email |-> "an@x.vn"]

(* _get_default_cv_data *)
_get_default_cv_data(error_msg) ==
    [name |-> "Unknown", email |-> None, phone |-> None,
     description |-> error_msg]

(* An extraction that caches whatever profile it returns *)
extract_cv_information_caching_all(w, cv_path, analysis) ==
    IF cv_path \in DOMAIN w.cv_cache
    THEN [cv_data |-> w.cv_cache[cv_path], w |-> w]
    ELSE LET called == [w EXCEPT !.analyzer_calls = Append(@, cv_path)]
             cv_data ==
                 IF analysis = "empty"
                 THEN _get_default_cv_data("CV extraction failed")
                 ELSE _get_default_cv_data("CV extraction error")
         IN  [cv_data |-> cv_data,
              w |-> [called EXCEPT !.cv_cache =
                       [k \in (DOMAIN called.cv_cache) \cup {cv_path} |->
                           IF k = cv_path THEN cv_data
                           ELSE called.cv_cache[k]]]]

(* extract_cv_information: the profile it returns, and the cache and the
   analyzer's call log after it.  analysis is what the analyzer does when it
   is called: "candidate", "empty" (no candidate) or "raise". *)
extract_cv_information(w, cv_path, analysis) ==
    IF cv_path \in DOMAIN w.cv_cache
    THEN [cv_data |-> w.cv_cache[cv_path], w |-> w]
    ELSE LET called == [w EXCEPT !.analyzer_calls = Append(@, cv_path)] IN
         IF analysis = "raise"
         THEN [cv_data |-> _get_default_cv_data("CV extraction error"),
               w |-> called]
         ELSE IF analysis = "empty"
         THEN [cv_data |-> _get_default_cv_data("CV extraction failed"),
               w |-> called]
         ELSE IF ~({"name", "email", "phone"} \subseteq CandidateFields)
         THEN (* candidate.phone: AttributeError, caught by except Exception *)
              [cv_data |-> _get_default_cv_data("CV extraction error"),
               w |-> called]
         ELSE LET cv_data ==
                    [name |-> IF AnalyzedCandidate.name /= ""
                              THEN AnalyzedCandidate.name ELSE "Unknown",
                     email |-> AnalyzedCandidate.email, phone |-> None,
                     description |-> "Role"]
              IN  [cv_data |-> cv_data,
                   w |-> [called EXCEPT !.cv_cache =
                            [k \in (DOMAIN called.cv_cache) \cup {cv_path} |->
                                IF k = cv_path THEN cv_data
                                ELSE called.cv_cache[k]]]]

(* _download_and_save_file: the path it writes *)
safe_file_path(target_dir, user_id, t, file_name) ==
    target_dir \o "/" \o user_id \o "_" \o ToString(t) \o "_" \o file_name

(* A CV handler that accepts any extension *)
_handle_cv_file_any_extension(w, file_name, user_id, user_role, ok) ==
    IF user_role \notin {"hr", "unknown"}
    THEN Goto(send_message(w, user_id, "cv_not_allowed", "", ok), "last_send")
    ELSE Goto(Do(w, Effect("download", user_id, file_name, "")),
              "cv_download")

(* _handle_cv_file, up to its first await *)
_handle_cv_file(w, file_name, user_id, user_role, ok) ==
    IF user_role \notin {"hr", "unknown"}
    THEN Goto(send_message(w, user_id, "cv_not_allowed", "", ok), "last_send")
    ELSE IF ~EndsWith(Lower(file_name), ".pdf")
    THEN Goto(send_message(w, user_id, "cv_not_pdf", "", ok), "last_send")
    ELSE Goto(Do(w, Effect("download", user_id, file_name, "")),
              "cv_download")

(* A CV handler that notes a failed download and waits for the download
   again *)
_handle_cv_file_downloaded_retrying(w, dl, analysis, ok, t) ==
    IF dl = "download_fail"
    THEN Goto([w EXCEPT !.unit.error = ~@], "cv_download")
    ELSE Goto(send_message(w, w.unit.user_id, "cv_error", "", ok),
              "cv_apology")

(* _handle_cv_file resumed when download_file returns: dl is "ok",
   "download_fail" (download_file raised) or "write_fail" (writing the file
   raised) *)
_handle_cv_file_downloaded(w, dl, analysis, ok, t) ==
    LET user_id == w.unit.user_id
        file_path == safe_file_path("uploads/cvs", user_id, t,
                                    w.unit.file_name)
    IN  IF dl = "download_fail"
        THEN Goto(send_message(w, user_id, "cv_error", "", ok), "cv_apology")
        ELSE IF dl = "write_fail"
        THEN Goto(send_message(
                    Do([w EXCEPT !.files = @ \cup
                            {[path |-> file_path, complete |-> FALSE]}],
                       Effect("write_partial", user_id, file_path, "")),
                    user_id, "cv_error", "", ok), "cv_apology")
        ELSE LET saved ==
                    Do([w EXCEPT
                          !.files = {f \in @ : f.path /= file_path} \cup
                                    {[path |-> file_path, complete |-> TRUE]},
                          !.unit.cv_path = file_path],
                       Effect("write", user_id, file_path, ""))
                 x == extract_cv_information(saved, file_path, analysis)
             IN  cv_received([x.w EXCEPT !.unit.action = "cv_received"],
                             x.cv_data, ok, t)

----------------------------------------------------------------------------
(* WBS ingestion *)

(* _handle_wbs_file, up to its first await *)
_handle_wbs_file(w, file_name, user_id, user_role, ok) ==
    IF user_role /= "manager"
    THEN Goto(send_message(w, user_id, "wbs_not_allowed", "", ok),
              "last_send")
    ELSE Goto(Do(w, Effect("download", user_id, file_name, "")),
              "wbs_download")

(* _handle_wbs_file resumed when download_file returns; read is whether
   read_file_content could read the saved file *)
_handle_wbs_file_downloaded(w, dl, read, ok, t) ==
    LET user_id == w.unit.user_id
        file_path == safe_file_path("uploads/wbs", user_id, t,
                                    w.unit.file_name)
    IN  IF dl = "download_fail"
        THEN Goto(send_message(w, user_id, "wbs_error", "", ok),
                  "wbs_apology")
        ELSE IF dl = "write_fail"
        THEN Goto(send_message(
                    Do([w EXCEPT !.files = @ \cup
                            {[path |-> file_path, complete |-> FALSE]}],
                       Effect("write_partial", user_id, file_path, "")),
                    user_id, "wbs_error", "", ok), "wbs_apology")
        ELSE LET saved ==
                    Do([w EXCEPT
                          !.files = {f \in @ : f.path /= file_path} \cup
                                    {[path |-> file_path, complete |-> TRUE]}],
                       Effect("write", user_id, file_path, ""))
             IN  IF read /= "ok"
                 THEN Goto(send_message(saved, user_id, "wbs_unreadable", "",
                                        ok), "last_send")
                 ELSE Goto(Do(saved, Effect("chatbot", user_id, file_path,
                                            "")), "wbs_chatbot")

(* _handle_wbs_file resumed when send_query_with_file returns a response
   ("ok") or None *)
_handle_wbs_file_answered(w, chat, ok) ==
    IF chat = "ok"
    THEN Goto(send_message([w EXCEPT !.unit.action = "wbs_received"],
                           w.unit.user_id, "chatbot_response", "", ok),
              "last_send")
    ELSE Goto(send_message(w, w.unit.user_id, "wbs_failed", "", ok),
              "last_send")

----------------------------------------------------------------------------
(* The event handlers of ZaloWebhookService, each up to its first await *)

(* The last attachment whose type is "file" (0 when there is none) *)
LastFile(attachments) ==
    LET at == {i \in 1..Len(attachments) : attachments[i].type = "file"}
    IN  IF at = {} THEN 0 ELSE CHOOSE i \in at : \A j \in at : i >= j

(* The first attachment whose type is "file" (0 when there is none) *)
FirstFile(attachments) ==
    LET at == {i \in 1..Len(attachments) : attachments[i].type = "file"}
    IN  IF at = {} THEN 0 ELSE CHOOSE i \in at : \A j \in at : i <= j

(* A rejection that ignores the role *)
_send_file_type_error_generic(w, user_id, user_role, ok) ==
    send_message(w, user_id, "unsupported_file", "", ok)

(* _send_file_type_error: the message depends on the role *)
_send_file_type_error(w, user_id, user_role, ok) ==
    LET message == IF user_role \in {"hr", "unknown"} THEN "unsupported_cv_hint"
                   ELSE IF user_role = "manager" THEN "unsupported_wbs_hint"
                   ELSE "unsupported_file"
    IN  send_message(w, user_id, message, "", ok)

(* handle_file_message *)
handle_file_message(w, ok, db) ==
    LET request == w.unit.request
        user_id == Get(request.sender, None)
    IN  IF user_id /= hr_user_id /\ db /= "ok"
        THEN Raise(w, "SQLAlchemyError")
        ELSE LET user_role == _get_user_role(user_id)
                 i == FirstFile(request.attachments)
             IN  IF i = 0
                 THEN process_webhook_async_end(w)
                 ELSE LET file_name == Get(request.attachments[i].name, "file")
                          file_type == _detect_file_type(file_name, user_role)
                          w1 == [w EXCEPT !.unit.user_id = user_id,
                                          !.unit.user_role = user_role,
                                          !.unit.file_name = file_name,
                                          !.unit.file_type = file_type]
                      IN  IF file_type = "cv"
                          THEN _handle_cv_file(w1, file_name, user_id,
                                               user_role, ok)
                          ELSE IF file_type = "wbs"
                          THEN _handle_wbs_file(w1, file_name, user_id,
                                                user_role, ok)
                          ELSE Goto(_send_file_type_error(w1, user_id,
                                        user_role, ok), "last_send")

(* handle_image_message *)
handle_image_message(w, ok) ==
    Goto(send_message(w, Get(w.unit.request.sender, None),
                      "image_not_supported", "", ok), "last_send")

(* A follow handler that greets the payload's sender *)
handle_follow_event_to_sender(w, ok) ==
    Goto(send_message(w, Get(w.unit.request.sender, None), "welcome", "",
                      ok), "last_send")

(* handle_follow_event *)
handle_follow_event(w, ok) ==
    Goto(send_message(w, Get(w.unit.request.follower, None), "welcome", "",
                      ok), "last_send")

(* The registration keywords of handle_text_message *)
RegistrationKeywords == {"dang ky", "register"}

(* A text handler that takes the commands of any sender *)
handle_text_message_any_sender(w, ok, db) ==
    LET request == w.unit.request
        text == Strip(Get(request.text, ""))
        user_id == Get(request.sender, None)
        w1 == [w EXCEPT !.unit.user_id = user_id]
    IN  IF StartsWith(Upper(text), "APPROVE ")
        THEN hr_approved([w1 EXCEPT !.unit.action = "hr_approved",
                            !.unit.registration_id =
                                Strip(AfterFirstSpace(text))], ok, db)
        ELSE IF StartsWith(Upper(text), "DECLINE ")
        THEN hr_declined([w1 EXCEPT !.unit.action = "hr_declined",
                            !.unit.registration_id =
                                Strip(AfterFirstSpace(text))], ok)
        ELSE IF Lower(text) \in RegistrationKeywords
        THEN Goto(send_message([w1 EXCEPT !.unit.action =
                                    "registration_initiated"],
                               user_id, "registration_instructions", "", ok),
                  "last_send")
        ELSE IF db /= "ok"
        THEN Raise(w1, "QdrantError")
        ELSE Goto(Do(w1, Effect("chatbot", user_id, text, "")),
                  "chat_wait")

(* handle_text_message, and for an HR command the approval step that
   follows it without an await *)
handle_text_message(w, ok, db) ==
    LET request == w.unit.request
        text == Strip(Get(request.text, ""))
        user_id == Get(request.sender, None)
        w1 == [w EXCEPT !.unit.user_id = user_id]
    IN  IF user_id = hr_user_id /\ StartsWith(Upper(text), "APPROVE ")
        THEN hr_approved([w1 EXCEPT !.unit.action = "hr_approved",
                            !.unit.registration_id =
                                Strip(AfterFirstSpace(text))], ok, db)
        ELSE IF user_id = hr_user_id /\ StartsWith(Upper(text), "DECLINE ")
        THEN hr_declined([w1 EXCEPT !.unit.action = "hr_declined",
                            !.unit.registration_id =
                                Strip(AfterFirstSpace(text))], ok)
        ELSE IF Lower(text) \in RegistrationKeywords
        THEN Goto(send_message([w1 EXCEPT !.unit.action =
                                    "registration_initiated"],
                               user_id, "registration_instructions", "", ok),
                  "last_send")
        ELSE IF db /= "ok"
        THEN (* qdrantdb.search_one raised *)
             Raise(w1, "QdrantError")
        ELSE Goto(Do(w1, Effect("chatbot", user_id, text, "")),
                  "chat_wait")

(* handle_text_message resumed when the chatbot answers ("ok") or returns
   None; db is whether the vector store accepts the upserts *)
handle_text_message_answered(w, chat, ok, db) ==
    IF chat = "ok"
    THEN Goto(send_message(w, w.unit.user_id, "chatbot_response", "", ok),
              "chat_sent")
    ELSE IF db /= "ok"
    THEN Raise(w, "QdrantError")
    ELSE Goto(send_message(w, w.unit.user_id, "chatbot_fallback", "", ok),
              "last_send")

(* A dispatch that treats an event it does not know as a text message *)
handle_webhook_event_text_by_default(w, ok, db) ==
    LET event_name == Get(w.unit.request.event_name, "") IN
    IF event_name = "user_send_file" THEN handle_file_message(w, ok, db)
    ELSE IF event_name = "user_send_image" THEN handle_image_message(w, ok)
    ELSE IF event_name = "follow" THEN handle_follow_event(w, ok)
    ELSE handle_text_message(w, ok, db)

(* handle_webhook_event: dispatch on event_name *)
handle_webhook_event(w, ok, db) ==
    LET event_name == Get(w.unit.request.event_name, "") IN
    IF event_name = "user_send_text" THEN handle_text_message(w, ok, db)
    ELSE IF event_name = "user_send_file" THEN handle_file_message(w, ok, db)
    ELSE IF event_name = "user_send_image" THEN handle_image_message(w, ok)
    ELSE IF event_name = "follow" THEN handle_follow_event(w, ok)
    ELSE process_webhook_async_end([w EXCEPT !.unit.action = "ignored"])

(* notify_hr: the lines of its message that carry the registration id *)
notify_hr(registration_id) ==
    "Registration ID: " \o registration_id
        \o " APPROVE " \o registration_id
        \o " DECLINE " \o registration_id

(* The REST endpoints of the approval workflow.  A call is kept as a unit:
   its path, the id in the path, what it did and how it ended. *)
RestCall(path, registration_id) ==
    [NewUnit(Request(path, Missing, Missing, Missing, Missing, Missing,
                     <<>>), "")
        EXCEPT !.pc = "called", !.registration_id = registration_id]

(* except Exception as e: raise HTTPException(status_code=500, ...); the
   404 raised inside the try is caught by it too *)
HTTPException(w, exc) ==
    [w EXCEPT !.unit.pc = "done", !.unit.error = TRUE, !.unit.raised = exc]

(* A REST decline that looks the id up in a copy of the store nothing is
   removed from *)
decline_registration_from_copy(w0, ok) ==
    LET w == Lookup([w0 EXCEPT !.unit.action = "rest_decline"])
        registration_id == w.unit.registration_id
    IN  IF registration_id \notin (DOMAIN w.pending) \cup w.removed
        THEN HTTPException(w, "HTTPException")
        ELSE LET removed ==
                    Do([w EXCEPT !.pending =
                          remove_pending_registration(w.pending,
                                                      registration_id)],
                       Effect("remove", "", "", registration_id))
             IN  Goto(send_message(removed, "", "declined",
                                   registration_id, ok), "rest_sent")

(* POST /decline/{registration_id}, up to its await *)
decline_registration(w0, ok) ==
    LET w == Lookup([w0 EXCEPT !.unit.action = "rest_decline"])
        registration_id == w.unit.registration_id
        pending == get_pending_registration(w.pending, registration_id)
    IN  IF pending = <<>>
        THEN HTTPException(w, "HTTPException")
        ELSE LET user_id_zalo == pending[1].user_id_zalo
                 removed ==
                    Do([w EXCEPT !.pending =
                          remove_pending_registration(w.pending,
                                                      registration_id)],
                       Effect("remove", user_id_zalo, "", registration_id))
             IN  Goto(send_message(removed, user_id_zalo, "declined",
                                   registration_id, ok), "rest_sent")

(* POST /approve/{registration_id}, up to its await *)
approve_registration(w0, ok, db) ==
    LET w == Lookup([w0 EXCEPT !.unit.action = "rest_approve"])
        registration_id == w.unit.registration_id
        pending == get_pending_registration(w.pending, registration_id)
    IN  IF pending = <<>>
        THEN HTTPException(w, "HTTPException")
        ELSE LET cv_data == pending[1].cv_data
                 user_id_zalo == pending[1].user_id_zalo
                 user_create_data ==
                     [name |-> cv_data.name, email |-> cv_data.email,
                      phone |-> cv_data.phone, cv |-> pending[1].cv_path]
             IN  IF ~UserCreateValid(cv_data)
                 THEN HTTPException(w, "ValidationError")
                 ELSE LET r == create_user(w.users, user_create_data, db) IN
                      IF r.raised /= ""
                      THEN HTTPException(w, r.raised)
                      ELSE LET created ==
                                  Do([w EXCEPT !.users = r.users],
                                     Effect("create_user", user_id_zalo,
                                            user_create_data.email,
                                            registration_id))
                               removed ==
                                  Do([created EXCEPT !.pending =
                                        remove_pending_registration(
                                            created.pending, registration_id)],
                                     Effect("remove", user_id_zalo, "",
                                            registration_id))
                           IN  Goto(send_message(removed, user_id_zalo,
                                        "approved", registration_id, ok),
                                    "rest_sent")

(* return {"status": "success", ...} *)
rest_return(w) == Goto(w, "done")

(* A unit resumed at the await it waits at *)
resumed(w, ok, dl, analysis, ext, t) ==
    LET pc == w.unit.pc IN
    IF pc = "cv_download"
    THEN _handle_cv_file_downloaded(w, dl, analysis, ok, t)
    ELSE IF pc = "wbs_download"
    THEN _handle_wbs_file_downloaded(w, dl, ext, ok, t)
    ELSE IF pc = "wbs_chatbot" THEN _handle_wbs_file_answered(w, ext, ok)
    ELSE IF pc = "chat_wait" THEN handle_text_message_answered(w, ext, ok, "ok")
    ELSE IF pc = "chat_sent"
    THEN (IF ext = "ok" THEN process_webhook_async_end(w)
          ELSE Raise(w, "QdrantError"))
    ELSE IF pc = "pending_sent"
    THEN (* notify_hr *)
         Goto(send_message(w, hr_user_id, notify_hr(w.unit.registration_id),
                           w.unit.registration_id, ok), "last_send")
    ELSE IF pc = "approved"
    THEN Goto(send_message(w, hr_user_id, "approved_confirm",
                           w.unit.registration_id, ok), "last_send")
    ELSE IF pc = "declined"
    THEN Goto(send_message(w, hr_user_id, "declined_confirm",
                           w.unit.registration_id, ok), "last_send")
    ELSE IF pc \in {"cv_apology", "wbs_apology"}
    THEN (* raise: re-raised by every handler, caught by the unit *)
         Raise(w, "IngestionError")
    ELSE IF pc = "rest_sent" THEN rest_return(w)
    ELSE process_webhook_async_end(w)

----------------------------------------------------------------------------
(* The steps of a processing unit *)

(* The outcomes an external call can have at the await (or the blocking
   call) a unit stands at; one outcome where the unit makes no such call *)
DownloadOutcomes(pc) ==
    IF pc \in {"cv_download", "wbs_download"}
    THEN {"ok", "download_fail", "write_fail"} ELSE {"ok"}

AnalyzerOutcomes(pc) ==
    IF pc = "cv_download" THEN {"candidate", "empty", "raise"}
    ELSE {"candidate"}

ServiceOutcomes(pc) ==
    IF pc \in {"wbs_download", "wbs_chatbot", "chat_wait", "chat_sent"}
    THEN {"ok", "fail"} ELSE {"ok"}

DatabaseOutcomes(request) ==
    IF Get(request.event_name, "") \in {"user_send_text", "user_send_file"}
    THEN {"ok", "fail"} ELSE {"ok"}

(* process_webhook_async starts: it runs to its first await *)
process_webhook_async(u) ==
    /\ u \in 1..Len(units)
    /\ units[u].pc = "scheduled"
    /\ \E ok \in BOOLEAN, db \in DatabaseOutcomes(units[u].request) :
          Commit(u, handle_webhook_event(World(u), ok, db))
    /\ UNCHANGED <<now, deliveries>>

(* The awaited call of a suspended unit returns: the unit runs to its next
   await, or to its end *)
resume(u) ==
    /\ u \in 1..Len(units)
    /\ units[u].pc \notin {"scheduled", "done"}
    /\ \E ok \in BOOLEAN, dl \in DownloadOutcomes(units[u].pc),
          analysis \in AnalyzerOutcomes(units[u].pc),
          ext \in ServiceOutcomes(units[u].pc) :
          Commit(u, resumed(World(u), ok, dl, analysis, ext, now))
    /\ UNCHANGED <<now, deliveries>>

(* A REST call arrives: its handler runs to its await, or to its end *)
Arriving(unit) ==
    [unit |-> unit, removed |-> RemovedIds,
     processed_events |-> processed_events,
     pending |-> pending_registrations,
     cv_cache |-> cv_cache, files |-> files, users |-> users,
     next_uuid |-> next_uuid, analyzer_calls |-> analyzer_calls,
     send_failed |-> send_failed]

Accept(w) ==
    /\ units' = Append(units, w.unit)
    /\ processed_events' = w.processed_events
    /\ pending_registrations' = w.pending
    /\ cv_cache' = w.cv_cache
    /\ files' = w.files
    /\ users' = w.users
    /\ next_uuid' = w.next_uuid
    /\ analyzer_calls' = w.analyzer_calls
    /\ send_failed' = w.send_failed

post_approve(registration_id) ==
    /\ Len(units) < MaxDeliveries
    /\ \E ok \in BOOLEAN, db \in {"ok", "fail"} :
          Accept(approve_registration(
                     Arriving(RestCall("POST /approve", registration_id)),
                     ok, db))
    /\ UNCHANGED <<now, deliveries>>

post_decline(registration_id) ==
    /\ Len(units) < MaxDeliveries
    /\ \E ok \in BOOLEAN :
          Accept(decline_registration(
                     Arriving(RestCall("POST /decline", registration_id)),
                     ok))
    /\ UNCHANGED <<now, deliveries>>

----------------------------------------------------------------------------
(* Payloads *)

TextFrom(sender, msg_id, text) ==
    Request("user_send_text", sender, Missing, msg_id, "100", text, <<>>)

FileFrom(sender, msg_id, name) ==
    Request("user_send_file", sender, Missing, msg_id, "100", Missing,
            <<Attachment("file", name)>>)

(* The approval workflow: CV uploads, and HR's commands for the first
   registration id *)
ApprovalRequests ==
    {FileFrom("c1", "f1", "resume.pdf"),
     TextFrom("hr", "a1", "APPROVE r1"),
     TextFrom("hr", "d1", "DECLINE r1"),
     TextFrom("hr", "d2", "decline r1")}

Deliver(requests) == \E request \in requests : zalo_webhook(request)

NextApproval ==
    \/ Deliver(ApprovalRequests)
    \/ \E u \in 1..MaxDeliveries : process_webhook_async(u)
    \/ \E u \in 1..MaxDeliveries : resume(u)

SpecApproval == Init /\ [][NextApproval]_vars

ImageFrom(sender, msg_id, timestamp) ==
    Request("user_send_image", sender, Missing, msg_id, timestamp, Missing,
            <<Attachment("image", Missing)>>)

FollowOf(follower, timestamp) ==
    Request("follow", Missing, follower, Missing, timestamp, Missing, <<>>)

(* Deliveries and redeliveries: an image message (redelivered with the same
   msg_id and a later timestamp), and a file message without a msg_id whose
   processing can fail *)
DedupRequests ==
    {ImageFrom("c1", "m1", "100"),
     ImageFrom("c1", "m1", "200"),
     Request("user_send_file", "s1", Missing, Missing, "100", Missing,
             <<Attachment("file", "notes.txt")>>)}

NextDedup ==
    \/ Deliver(DedupRequests)
    \/ Tick
    \/ \E u \in 1..MaxDeliveries : process_webhook_async(u)
    \/ \E u \in 1..MaxDeliveries : resume(u)

SpecDedup == Init /\ [][NextDedup]_vars

(* What the endpoint can be sent: a message, a payload whose sender is null,
   and a body that is not a JSON object *)
EndpointRequests ==
    {ImageFrom("c1", "m1", "100"),
     Request("user_send_text", Null, Missing, "t2", "100", "hi", <<>>),
     NotAnObject}

NextEndpoint ==
    \/ Deliver(EndpointRequests)
    \/ Tick
    \/ \E u \in 1..MaxDeliveries : process_webhook_async(u)
    \/ \E u \in 1..MaxDeliveries : resume(u)

SpecEndpoint == Init /\ [][NextEndpoint]_vars

(* One file message: each sender of the directory, HR and a stranger, with
   each of the file names *)
FileSenders == {"hr", "m1", "s1", "s2", "c1"}

FileNames ==
    {"CV_A.pdf", "wbs_plan.xlsx", "resume.docx", "notes.txt",
     "Project-Plan.pdf"}

FileRequests ==
    {FileFrom(sender, "f1", name) : sender \in FileSenders, name \in FileNames}

FirstDelivery(requests) == deliveries = <<>> /\ Deliver(requests)

NextFiles ==
    \/ FirstDelivery(FileRequests)
    \/ \E u \in 1..MaxDeliveries : process_webhook_async(u)
    \/ \E u \in 1..MaxDeliveries : resume(u)

SpecFiles == Init /\ [][NextFiles]_vars

(* Two uploads by one candidate of a file of the same name *)
IngestRequests ==
    {FileFrom("c1", "f1", "resume.pdf"), FileFrom("c1", "f2", "resume.pdf")}

NextIngest ==
    \/ Deliver(IngestRequests)
    \/ \E u \in 1..MaxDeliveries : process_webhook_async(u)
    \/ \E u \in 1..MaxDeliveries : resume(u)

SpecIngest == Init /\ [][NextIngest]_vars

(* The three transitions of a registration: an upload, and HR's approval and
   decline of the first registration id *)
NotifyRequests ==
    {FileFrom("c1", "f1", "resume.pdf"),
     TextFrom("hr", "a1", "APPROVE r1"),
     TextFrom("hr", "d1", "DECLINE r1")}

NextNotify ==
    \/ Deliver(NotifyRequests)
    \/ \E u \in 1..MaxDeliveries : process_webhook_async(u)
    \/ \E u \in 1..MaxDeliveries : resume(u)

SpecNotify == Init /\ [][NextNotify]_vars

(* Texts made of a verb, a separator and an id, with blanks around them *)
Leads == {"", " "}

Verbs ==
    {"APPROVE", "approve", "ApProVe", "DECLINE", "decline", "APPROVED",
     "APPROV", "register", "Register"}

Separators == {"", " ", "  ", "\t"}

Ids == {"", "r1", "R1", "r1 x"}

Trails == {"", " ", "\t"}

CommandTexts ==
    {lead \o verb \o sep \o id \o trail :
        lead \in Leads, verb \in Verbs, sep \in Separators, id \in Ids,
        trail \in Trails}

CommandRequests ==
    {TextFrom(sender, "t1", text) :
        sender \in {"hr", "c1"}, text \in CommandTexts}

(* The upload was processed to its end, and nothing else was delivered *)
AfterUpload == Len(deliveries) = 1 /\ units[1].pc = "done"

(* One upload, and after it one text *)
NextCommands ==
    \/ FirstDelivery({FileFrom("c1", "f1", "resume.pdf")})
    \/ AfterUpload /\ Deliver(CommandRequests)
    \/ \E u \in 1..MaxDeliveries : process_webhook_async(u)
    \/ \E u \in 1..MaxDeliveries : resume(u)

SpecCommands == Init /\ [][NextCommands]_vars

(* The event names handle_webhook_event has a handler for *)
EventNames == {"user_send_text", "user_send_file", "user_send_image", "follow"}

(* An upload, and events the dispatch has no handler for: one of another
   name, and one without a name that reads like a command of HR *)
EventRequests ==
    {FileFrom("c1", "f1", "resume.pdf"),
     Request("user_send_sticker", "c1", Missing, "s1", "100", Missing, <<>>),
     Request(Missing, "hr", Missing, "a1", "100", "APPROVE r1", <<>>)}

NextEvents ==
    \/ Deliver(EventRequests)
    \/ \E u \in 1..MaxDeliveries : process_webhook_async(u)
    \/ \E u \in 1..MaxDeliveries : resume(u)

SpecEvents == Init /\ [][NextEvents]_vars

(* Two uploads, and HR's decline of the first registration id *)
RegistrationRequests ==
    {FileFrom("c1", "f1", "resume.pdf"),
     FileFrom("c2", "f2", "cv.pdf"),
     TextFrom("hr", "d1", "DECLINE r1")}

NextRegistrations ==
    \/ Deliver(RegistrationRequests)
    \/ \E u \in 1..MaxDeliveries : process_webhook_async(u)
    \/ \E u \in 1..MaxDeliveries : resume(u)

SpecRegistrations == Init /\ [][NextRegistrations]_vars

(* Two uploads of a file of the same name by one candidate, and HR's
   approval of the first registration id *)
RecordRequests ==
    {FileFrom("c1", "f1", "resume.pdf"),
     FileFrom("c1", "f2", "resume.pdf"),
     TextFrom("hr", "a1", "APPROVE r1")}

NextRecords ==
    \/ Deliver(RecordRequests)
    \/ \E u \in 1..MaxDeliveries : process_webhook_async(u)
    \/ \E u \in 1..MaxDeliveries : resume(u)

SpecRecords == Init /\ [][NextRecords]_vars

(* More than an hour passes *)
Hour ==
    /\ now + TTL + 1 <= MaxTime
    /\ now' = now + TTL + 1
    /\ UNCHANGED <<processed_events, deliveries, units, pending_registrations,
                   cv_cache, files, users, next_uuid, analyzer_calls,
                   send_failed>>

(* Events of every kind: chat, the registration keyword, an image, a follow,
   a WBS file of a manager, an event of an unknown name, and HR's commands
   for the first registration id *)
FrameRequests ==
    {TextFrom("c1", "t1", "hello"),
     TextFrom("c1", "t2", "register"),
     ImageFrom("c1", "i1", "100"),
     FollowOf("c1", "100"),
     FileFrom("m1", "w1", "wbs_plan.xlsx"),
     Request("user_send_sticker", "c1", Missing, "s1", "100", Missing, <<>>),
     TextFrom("hr", "a1", "APPROVE r1"),
     TextFrom("hr", "d1", "DECLINE r1")}

(* Every unit scheduled so far has ended *)
Quiet == Len(deliveries) >= 1 /\ \A u \in 1..Len(units) : units[u].pc = "done"

(* An upload, and after it events of every kind one after another, first
   deliveries and redeliveries alike *)
NextFrame ==
    \/ FirstDelivery({FileFrom("c1", "f1", "resume.pdf")})
    \/ Quiet /\ Deliver(FrameRequests)
    \/ Quiet /\ Hour
    \/ \E u \in 1..MaxDeliveries : process_webhook_async(u)
    \/ \E u \in 1..MaxDeliveries : resume(u)

SpecFrame == Init /\ [][NextFrame]_vars

(* Events whose units make the external calls: a CV upload (download,
   analyzer, sends) and a chat text (vector store, chatbot, send) *)
LiveRequests ==
    {FileFrom("c1", "f1", "resume.pdf"),
     TextFrom("c1", "t1", "hello")}

NextLive ==
    \/ Deliver(LiveRequests)
    \/ \E u \in 1..MaxDeliveries : process_webhook_async(u)
    \/ \E u \in 1..MaxDeliveries : resume(u)

(* A step of some unit *)
Run == \E u \in 1..MaxDeliveries : process_webhook_async(u) \/ resume(u)

(* The world w differs from the present one *)
Changes(u, w) ==
    \/ w.unit /= units[u]
    \/ w.processed_events /= processed_events
    \/ w.pending /= pending_registrations
    \/ w.cv_cache /= cv_cache
    \/ w.files /= files
    \/ w.users /= users
    \/ w.next_uuid /= next_uuid
    \/ w.analyzer_calls /= analyzer_calls
    \/ w.send_failed /= send_failed

(* ENABLED <<Run>>_vars, computed: some unit has a step that changes the
   state *)
CanRun ==
    \E u \in 1..Len(units) :
        IF units[u].pc = "scheduled"
        THEN \E ok \in BOOLEAN, db \in DatabaseOutcomes(units[u].request) :
                 Changes(u, handle_webhook_event(World(u), ok, db))
        ELSE /\ units[u].pc /= "done"
             /\ \E ok \in BOOLEAN, dl \in DownloadOutcomes(units[u].pc),
                   analysis \in AnalyzerOutcomes(units[u].pc),
                   ext \in ServiceOutcomes(units[u].pc) :
                    Changes(u, resumed(World(u), ok, dl, analysis, ext, now))

(* WF_vars(Run): the event loop runs a task that is ready, and every
   awaited call returns, fails or times out *)
Fairness == []<>(~CanRun) \/ []<><<Run>>_vars

SpecLive == Init /\ [][NextLive]_vars /\ Fairness

(* An upload, then HR's chat commands and REST calls for its registration
   id, and REST calls for an id no registration has *)
RestIds == {"r1", "r9"}

RestRequests ==
    {TextFrom("hr", "a1", "APPROVE r1"), TextFrom("hr", "d1", "DECLINE r1")}

Uploaded ==
    /\ Len(units) \in 1..(MaxDeliveries - 1)
    /\ units[1].pc = "done"

NextRest ==
    \/ FirstDelivery({FileFrom("c1", "f1", "resume.pdf")})
    \/ Uploaded /\ Deliver(RestRequests)
    \/ Uploaded /\ \E registration_id \in RestIds :
                       post_approve(registration_id)
    \/ Uploaded /\ \E registration_id \in RestIds :
                       post_decline(registration_id)
    \/ \E u \in 1..MaxDeliveries : process_webhook_async(u)
    \/ \E u \in 1..MaxDeliveries : resume(u)

SpecRest == Init /\ [][NextRest]_vars

(* One file event of a candidate or of a manager, with every list of up to
   MaxAttachments attachments: an image, a CV, a WBS and a file of neither
   kind *)
AttachmentKinds ==
    {Attachment("image", "photo.png"), Attachment("file", "resume.pdf"),
     Attachment("file", "wbs_plan.xlsx"), Attachment("file", "notes.txt")}

AttachmentLists ==
    UNION {[1..n -> AttachmentKinds] : n \in 0..MaxAttachments}

AttachmentRequests ==
    {Request("user_send_file", sender, Missing, "f1", "100", Missing,
             attachments) :
        sender \in {"c1", "m1"}, attachments \in AttachmentLists}

NextAttachments ==
    \/ FirstDelivery(AttachmentRequests)
    \/ \E u \in 1..MaxDeliveries : process_webhook_async(u)
    \/ \E u \in 1..MaxDeliveries : resume(u)

SpecAttachments == Init /\ [][NextAttachments]_vars

(* Follow events of two followers, two of them with one timestamp *)
FollowRequests ==
    {FollowOf("c1", "100"), FollowOf("c2", "100"), FollowOf("c2", "200")}

NextFollows ==
    \/ Deliver(FollowRequests)
    \/ Tick
    \/ \E u \in 1..MaxDeliveries : process_webhook_async(u)
    \/ \E u \in 1..MaxDeliveries : resume(u)

SpecFollows == Init /\ [][NextFollows]_vars

----------------------------------------------------------------------------
(* What the deliveries and the units show *)

Units == 1..Len(units)

Deliveries == 1..Len(deliveries)

EffectsOf(u) == {units[u].effects[i] : i \in 1..Len(units[u].effects)}

(* The handler computed a key for delivery i *)
Keyed(i) == deliveries[i].http = 200 /\ deliveries[i].status /= "error"

KeyOf(i) == generate_event_id(deliveries[i].request)

Accepted(i) == deliveries[i].unit /= 0

Rejected(i) ==
    /\ deliveries[i].unit = 0
    /\ deliveries[i].message = "Event already processed"

(* The delivery that scheduled unit u, and its time *)
DeliveryOf(u) == CHOOSE i \in Deliveries : deliveries[i].unit = u

AcceptedAt(u) == deliveries[DeliveryOf(u)].at

(* Delivery j repeats an accepted delivery of the same key made at most one
   hour before it *)
IsRepeat(j) ==
    \E i \in Deliveries :
        /\ i < j /\ Keyed(i) /\ Accepted(i) /\ KeyOf(i) = KeyOf(j)
        /\ deliveries[j].at - deliveries[i].at <= TTL

(* Unit u took registration R to a terminal state *)
Removed(u, R) == \E e \in EffectsOf(u) : e.e = "remove" /\ e.reg = R

NotifiedOutcome(u, R) ==
    \E e \in EffectsOf(u) :
        e.e = "send" /\ e.reg = R /\ e.msg \in {"approved", "declined"}

(* The terminal-outcome messages sent about R, and the accounts created
   from R, as (unit, position) pairs *)
EffectsAbout(R) ==
    UNION {{<<u, i>> : i \in {j \in 1..Len(units[u].effects) :
                                  units[u].effects[j].reg = R}} :
           u \in Units}

OutcomeMessages(R) ==
    {p \in EffectsAbout(R) :
        /\ units[p[1]].effects[p[2]].e = "send"
        /\ units[p[1]].effects[p[2]].msg \in {"approved", "declined"}}

AccountCreations(R) ==
    {p \in EffectsAbout(R) : units[p[1]].effects[p[2]].e = "create_user"}

(* The registration ids the units speak of *)
RegistrationIds == {units[u].registration_id : u \in Units} \ {""}

(* Unit u processes an HR command *)
IsCommand(u) == units[u].action \in {"hr_approved", "hr_declined"}

NotFoundReply(R) == Effect("send", hr_user_id, "not_found", R)

----------------------------------------------------------------------------
(* C1. Terminal-state exclusivity: of the APPROVE R / DECLINE R commands
   processed one after another, at most one removes R and notifies the
   candidate of the outcome; every command that looks R up after that removal
   only sends HR the "not found" reply: nothing to the candidate, no account,
   no change of the store. *)
TerminalStateExclusivity ==
    \A R \in RegistrationIds :
        /\ Cardinality({u \in Units : Removed(u, R)}) <= 1
        /\ \A u \in Units : Removed(u, R) => NotifiedOutcome(u, R)
        /\ \A v \in Units :
              IsCommand(v) /\ units[v].registration_id = R
                  /\ units[v].after_removal
              => /\ units[v].effects = <<NotFoundReply(R)>>
                 /\ units[v].pc \in {"return", "done"}
                 /\ R \notin DOMAIN pending_registrations

(* An APPROVE processed after a DECLINE of the same registration succeeded *)
ApproveAfterDeclineWitness ==
    \E u \in Units, v \in Units :
        /\ units[u].action = "hr_declined" /\ units[u].pc = "done"
        /\ Removed(u, units[u].registration_id)
        /\ units[v].action = "hr_approved" /\ units[v].after_removal
        /\ units[v].registration_id = units[u].registration_id
        /\ units[v].effects = <<NotFoundReply(units[u].registration_id)>>
        /\ users = <<>>

(* C2. The APPROVE/DECLINE race is closed: however the units that process
   commands for the same pending R interleave at their awaits, the candidate
   is sent at most one terminal-outcome message about R, at most one account
   is created from R, and at most one unit removes R. *)
ApprovalRaceClosed ==
    \A R \in RegistrationIds :
        /\ Cardinality(OutcomeMessages(R)) <= 1
        /\ Cardinality(AccountCreations(R)) <= 1
        /\ Cardinality({u \in Units : Removed(u, R)}) <= 1

(* A DECLINE suspended at its notification of the candidate while a
   concurrent APPROVE of the same registration has already got "not found" *)
ConcurrentCommandsWitness ==
    \E u \in Units, v \in Units :
        /\ units[u].action = "hr_declined" /\ units[u].pc = "declined"
        /\ units[v].action = "hr_approved" /\ units[v].pc = "return"
        /\ units[v].registration_id = units[u].registration_id
        /\ units[v].effects = <<NotFoundReply(units[u].registration_id)>>
        /\ Cardinality(OutcomeMessages(units[u].registration_id)) = 1

(* C3. Dedup idempotency: of the deliveries of one key made within one hour
   of an acceptance of it, only that first one is accepted; each later one is
   rejected as a duplicate and schedules no unit. *)
DedupIdempotency ==
    /\ \A i \in Deliveries, j \in Deliveries :
          /\ i < j /\ Keyed(i) /\ Keyed(j) /\ KeyOf(i) = KeyOf(j)
          /\ Accepted(i)
          /\ deliveries[j].at - deliveries[i].at <= TTL
          => Rejected(j)
    /\ Len(units) = Cardinality({i \in Deliveries : Accepted(i)})
    /\ \A u \in Units, v \in Units :
          u /= v /\ units[u].event_id = units[v].event_id
          => \/ AcceptedAt(u) - AcceptedAt(v) > TTL
             \/ AcceptedAt(v) - AcceptedAt(u) > TTL

(* Three deliveries of one key within the hour: one unit, two duplicates *)
ThreeDeliveriesWitness ==
    /\ Len(deliveries) = 3
    /\ KeyOf(1) = KeyOf(2) /\ KeyOf(2) = KeyOf(3)
    /\ Accepted(1) /\ Rejected(2) /\ Rejected(3)
    /\ deliveries[3].at - deliveries[1].at = TTL
    /\ Len(units) = 1

(* C4. Dedup expiry: a delivery of k that no acceptance of k precedes by an
   hour or less is accepted as new, and a step never removes from the dedup
   set (or re-marks) a key marked an hour ago or less. *)
ExpiredIsNew ==
    \A j \in Deliveries :
        /\ Keyed(j)
        /\ \A i \in Deliveries :
              i < j /\ Keyed(i) /\ Accepted(i) /\ KeyOf(i) = KeyOf(j)
              => deliveries[j].at - deliveries[i].at > TTL
        => /\ Accepted(j)
           /\ units[deliveries[j].unit].event_id = KeyOf(j)

FreshNeverPruned ==
    \A k \in DOMAIN processed_events :
        now' - processed_events[k] <= TTL
        => k \in DOMAIN processed_events'
              /\ processed_events'[k] = processed_events[k]

DedupExpiry == []ExpiredIsNew /\ [][FreshNeverPruned]_vars

(* A key accepted a second time, more than an hour after it was marked, and
   its unit run again *)
AcceptedAgainWitness ==
    \E i \in Deliveries, j \in Deliveries :
        /\ i < j /\ Keyed(i) /\ Keyed(j) /\ KeyOf(i) = KeyOf(j)
        /\ Accepted(i) /\ Accepted(j)
        /\ deliveries[j].at - deliveries[i].at = TTL + 1
        /\ units[deliveries[j].unit].pc = "done"
        /\ processed_events[KeyOf(j)] = deliveries[j].at

(* C5. The check-then-mark is atomic: of the deliveries of one key that
   arrive at the same time, whatever the order their handlers run in, at most
   one is accepted and at most one unit is scheduled. *)
CheckThenMarkAtomic ==
    \A i \in Deliveries, j \in Deliveries :
        /\ i /= j /\ Keyed(i) /\ Keyed(j) /\ KeyOf(i) = KeyOf(j)
        /\ deliveries[i].at = deliveries[j].at
        => /\ ~(Accepted(i) /\ Accepted(j))
           /\ Cardinality({u \in Units :
                    units[u].event_id = KeyOf(i)
                        /\ AcceptedAt(u) = deliveries[i].at}) <= 1

(* Two deliveries of one key at the same time, before the unit of the first
   has run *)
SimultaneousDeliveriesWitness ==
    \E i \in Deliveries, j \in Deliveries :
        /\ i /= j /\ Keyed(i) /\ Keyed(j) /\ KeyOf(i) = KeyOf(j)
        /\ deliveries[i].at = deliveries[j].at
        /\ Accepted(i) /\ Rejected(j)
        /\ units[deliveries[i].unit].pc = "scheduled"

(* C6. Mark-before-effect: a unit is scheduled with its key marked and
   nothing done; every later step in which a unit sends, downloads, writes,
   creates an account or changes the registration store finds the unit's key
   already marked (or expired after its hour); and the stores change only in
   such steps. *)
MarkBeforeEffectStep ==
    /\ \A u \in 1..Len(units') :
          IF u > Len(units)
          THEN /\ units'[u].effects = <<>>
               /\ units'[u].event_id \in DOMAIN processed_events'
          ELSE units'[u].effects /= units[u].effects
               => \/ units[u].event_id \in DOMAIN processed_events
                  \/ now - AcceptedAt(u) > TTL
    /\ (\/ pending_registrations' /= pending_registrations
        \/ users' /= users
        \/ files' /= files)
       => \E u \in Units : units'[u].effects /= units[u].effects

MarkBeforeEffect == [][MarkBeforeEffectStep]_vars

(* A unit that has downloaded, written, stored and sent, its key marked *)
EffectsAfterMarkWitness ==
    \E u \in Units :
        /\ {e.e : e \in EffectsOf(u)} = {"download", "write", "store", "send"}
        /\ units[u].event_id \in DOMAIN processed_events
        /\ processed_events[units[u].event_id] = AcceptedAt(u)

(* C7. At-most-once: whatever happened to the unit of an accepted event (it
   failed, or it stands at any step), the key stays marked for its hour and
   every redelivery in that hour is rejected, so that no second unit is
   started for the event. *)
AtMostOnce ==
    \A u \in Units :
        /\ now - AcceptedAt(u) <= TTL
           => /\ units[u].event_id \in DOMAIN processed_events
              /\ processed_events[units[u].event_id] = AcceptedAt(u)
        /\ \A j \in Deliveries :
              /\ j > DeliveryOf(u) /\ Keyed(j)
              /\ KeyOf(j) = units[u].event_id
              /\ deliveries[j].at - AcceptedAt(u) <= TTL
              => Rejected(j)

(* A unit failed, and the redelivery of its event after the failure was
   rejected *)
FailedNotRetriedWitness ==
    \E u \in Units, j \in Deliveries :
        /\ units[u].error /\ units[u].pc = "done"
        /\ j = Len(deliveries) /\ j > DeliveryOf(u)
        /\ KeyOf(j) = units[u].event_id
        /\ Rejected(j)
        /\ Len(units) = 1

(* C8. Key derivation: the key of an accepted event is event_name, msg_id and
   sender id when the message has a msg_id, and event_name, timestamp and
   sender id otherwise; deliveries of the same logical event have the same
   key. *)
FieldOf(v) == IF v = Missing THEN "" ELSE v

LogicalEvent(request) ==
    <<FieldOf(request.event_name), FieldOf(request.sender),
      IF FieldOf(request.msg_id) /= "" THEN FieldOf(request.msg_id)
      ELSE FieldOf(request.timestamp)>>

KeyDerivation ==
    /\ \A u \in Units :
          LET request == units[u].request IN
          units[u].event_id =
              IF FieldOf(request.msg_id) /= ""
              THEN FieldOf(request.event_name) \o "_" \o FieldOf(request.msg_id)
                       \o "_" \o FieldOf(request.sender)
              ELSE FieldOf(request.event_name) \o "_"
                       \o FieldOf(request.timestamp)
                       \o "_" \o FieldOf(request.sender)
    /\ \A u \in Units, j \in Deliveries :
          /\ Keyed(j) /\ j > DeliveryOf(u)
          /\ LogicalEvent(deliveries[j].request) = LogicalEvent(units[u].request)
          /\ deliveries[j].at - AcceptedAt(u) <= TTL
          => IF Accepted(j)
             THEN units[deliveries[j].unit].event_id = units[u].event_id
             ELSE Rejected(j)
    /\ \A u \in Units, v \in Units :
          LogicalEvent(units[u].request) = LogicalEvent(units[v].request)
          => units[u].event_id = units[v].event_id

(* A message keyed by its msg_id whose redelivery, with another timestamp,
   was recognised, and an event keyed by its timestamp *)
KeysWitness ==
    \E u \in Units, v \in Units, j \in Deliveries :
        /\ units[u].event_id = "user_send_image_m1_c1"
        /\ units[v].event_id = "user_send_file_100_s1"
        /\ j > DeliveryOf(u) /\ Rejected(j)
        /\ deliveries[j].request /= units[u].request
        /\ LogicalEvent(deliveries[j].request) = LogicalEvent(units[u].request)

(* C9. The endpoint's answers: a body that is a JSON object is answered HTTP
   200: status "ok" with the event key for an accepted delivery, status "ok"
   with the message "Event already processed" and no key for a repeated one,
   status "error" when the handler raised; a body that is not a JSON object
   is answered 422 by the framework, the handler not run. *)
EndpointAnswers ==
    \A i \in Deliveries :
        LET d == deliveries[i] IN
        IF d.request.json /= "object"
        THEN d.http = 422 /\ d.unit = 0
        ELSE /\ d.http = 200
             /\ \/ /\ Accepted(i) /\ d.status = "ok"
                   /\ d.event_id = units[d.unit].event_id
                   /\ d.event_id = KeyOf(i)
                   /\ ~IsRepeat(i)
                \/ /\ Rejected(i) /\ d.status = "ok" /\ d.event_id = ""
                   /\ IsRepeat(i)
                \/ /\ d.unit = 0 /\ d.status = "error"
                   /\ Raises(d.request.sender) \/ Raises(d.request.msg_id)

(* C9 as stated: every delivery is answered HTTP 200, a first delivery with
   status "ok" and the key, a repeated one with status "duplicate" *)
EndpointAnswersAsStated ==
    \A i \in Deliveries :
        LET d == deliveries[i] IN
        /\ d.http = 200
        /\ IF d.request.json = "object" /\ Keyed(i) /\ IsRepeat(i)
           THEN d.status = "duplicate"
           ELSE d.status = "ok" /\ d.event_id /= ""

(* A first delivery, its repetition, and a payload the handler raised on,
   all answered *)
AnswersWitness ==
    /\ Len(deliveries) = 3
    /\ Accepted(1) /\ deliveries[1].status = "ok"
    /\ Rejected(2) /\ deliveries[2].status = "ok" /\ KeyOf(2) = KeyOf(1)
    /\ deliveries[3].status = "error" /\ deliveries[3].http = 200

(* C10. No exception escapes a unit: a unit that fails ends with its error
   logged; the failing step changes neither the dedup set nor the
   registration store nor the accounts nor any other unit, so that the
   other units run on from the state they were in. *)
FailureContainedStep ==
    \A u \in Units :
        ~units[u].error /\ units'[u].error
        => /\ units'[u].pc = "done" /\ ~units'[u].escaped
           /\ processed_events' = processed_events
           /\ pending_registrations' = pending_registrations
           /\ users' = users
           /\ \A v \in Units \ {u} : units'[v] = units[v]

NothingEscaped ==
    \A u \in Units :
        ~units[u].escaped /\ (units[u].error => units[u].pc = "done")

FailureContained == []NothingEscaped /\ [][FailureContainedStep]_vars

(* An approval failed in its account creation, and the DECLINE scheduled
   after it found the registration and removed it *)
FailuresWitness ==
    \E u \in Units, x \in Units :
        /\ units[u].error /\ units[u].action = "hr_approved"
        /\ units[u].effects = <<>>
        /\ x > u /\ units[x].action = "hr_declined"
        /\ units[x].pc = "done" /\ ~units[x].error
        /\ Removed(x, units[u].registration_id)

----------------------------------------------------------------------------
(* The sender a unit's event names: sender.id, or follower.id of a follow *)
SenderOf(u) ==
    LET request == units[u].request
        id == IF FieldOf(request.event_name) = "follow"
              THEN request.follower ELSE request.sender
    IN  IF id \in {Missing, Null} THEN "" ELSE id

ApologyMessages == {"cv_error", "wbs_error"}

(* C11. Every unit that failed with an exception while processing an event
   whose sender is known has sent that sender an apology. *)
FailureApology ==
    \A u \in Units :
        units[u].error /\ SenderOf(u) /= ""
        => \E e \in EffectsOf(u) :
              e.e = "send" /\ e.to = SenderOf(u) /\ e.msg \in ApologyMessages

(* The stores are as they were at the start *)
NothingPersisted ==
    /\ DOMAIN pending_registrations = {}
    /\ DOMAIN cv_cache = {}
    /\ files = {}
    /\ users = <<>>
    /\ analyzer_calls = <<>>

(* Unit u has classified the file of its event *)
Classified(u) == units[u].file_type /= ""

(* C12. Role-gated classification: a file is classified cv only for role hr
   or unknown and wbs only for role manager; role staff always gets unknown;
   "CV_A.pdf" is unknown for a manager and cv for an unknown sender. *)
RoleGatedClassification ==
    /\ \A u \in Units :
          Classified(u)
          => /\ units[u].file_type \in {"cv", "wbs", "unknown"}
             /\ units[u].file_type = "cv"
                => units[u].user_role \in {"hr", "unknown"}
             /\ units[u].file_type = "wbs" => units[u].user_role = "manager"
             /\ units[u].user_role = "staff" => units[u].file_type = "unknown"
             /\ units[u].file_name = "CV_A.pdf"
                => units[u].file_type =
                      IF units[u].user_role \in {"hr", "unknown"}
                      THEN "cv" ELSE "unknown"
    /\ \A name \in FileNames :
          /\ _detect_file_type(name, "staff") = "unknown"
          /\ _detect_file_type(name, "manager") /= "cv"
          /\ _detect_file_type(name, "hr") /= "wbs"
          /\ _detect_file_type(name, "unknown") /= "wbs"

(* A manager's "CV_A.pdf", classified unknown and rejected *)
ManagerCvWitness ==
    \E u \in Units :
        /\ units[u].file_name = "CV_A.pdf" /\ units[u].user_role = "manager"
        /\ units[u].file_type = "unknown" /\ units[u].pc = "done"

(* C13. Role resolution: the role a unit resolves for its sender is hr for
   the HR identity whatever the directory holds, else the directory record's
   role (staff when unset), else unknown; the step that resolves it changes
   no store. *)
RoleResolved ==
    \A u \in Units :
        units[u].user_role /= ""
        => units[u].user_role =
              IF SenderOf(u) = hr_user_id THEN "hr"
              ELSE IF SenderOf(u) \in DOMAIN DirectoryRoles
              THEN (IF DirectoryRoles[SenderOf(u)] = "" THEN "staff"
                    ELSE DirectoryRoles[SenderOf(u)])
              ELSE "unknown"

RoleLookupFrame ==
    \A u \in Units :
        units[u].user_role = "" /\ units'[u].user_role /= ""
        => /\ pending_registrations' = pending_registrations
           /\ cv_cache' = cv_cache
           /\ files' = files
           /\ users' = users
           /\ processed_events' = processed_events

RoleResolution == []RoleResolved /\ [][RoleLookupFrame]_vars

(* HR, of whom the directory holds a manager record, resolved as hr; its
   "CV_A.pdf" taken as a CV *)
HrRoleWitness ==
    \E u \in Units :
        /\ SenderOf(u) = hr_user_id
        /\ DirectoryRoles[hr_user_id] = "manager"
        /\ units[u].user_role = "hr" /\ units[u].file_type = "cv"

(* The rejection message for each role *)
RejectionFor(role) ==
    IF role \in {"hr", "unknown"} THEN "unsupported_cv_hint"
    ELSE IF role = "manager" THEN "unsupported_wbs_hint"
    ELSE "unsupported_file"

(* C14. Unauthorized upload: a unit whose file classified as unknown sends
   its sender exactly one rejection message, chosen by the role, and nothing
   else happens: no download, no write, no analyzer or agent call, no
   registration. *)
UnauthorizedUpload ==
    \A u \in Units :
        Classified(u) /\ units[u].file_type = "unknown"
        => /\ units[u].effects =
                 <<Effect("send", SenderOf(u), RejectionFor(units[u].user_role),
                          "")>>
           /\ units[u].pc \in {"last_send", "done"}
           /\ ~units[u].error
           /\ NothingPersisted

(* A staff member's "wbs_plan.xlsx", rejected *)
StaffWbsWitness ==
    \E u \in Units :
        /\ units[u].file_name = "wbs_plan.xlsx" /\ units[u].user_role = "staff"
        /\ SenderOf(u) = "s1"
        /\ units[u].file_type = "unknown" /\ units[u].pc = "done"
        /\ units[u].effects = <<Effect("send", "s1", "unsupported_file", "")>>

(* C15. A file classified cv whose name does not end in .pdf is rejected
   before any persistence: one explicit message to the sender; no download,
   no write, no analyzer call, no registration. *)
NonPdfCvRejected ==
    \A u \in Units :
        /\ Classified(u) /\ units[u].file_type = "cv"
        /\ ~EndsWith(Lower(units[u].file_name), ".pdf")
        => /\ units[u].effects =
                 <<Effect("send", SenderOf(u), "cv_not_pdf", "")>>
           /\ units[u].pc \in {"last_send", "done"}
           /\ ~units[u].error
           /\ NothingPersisted

(* A stranger's "resume.docx", rejected *)
NonPdfCvWitness ==
    \E u \in Units :
        /\ units[u].file_name = "resume.docx" /\ units[u].user_role = "unknown"
        /\ units[u].file_type = "cv" /\ units[u].pc = "done"
        /\ units[u].effects = <<Effect("send", "c1", "cv_not_pdf", "")>>

----------------------------------------------------------------------------
(* The profiles that stand for a failed extraction *)
FailedExtractions ==
    {_get_default_cv_data("CV extraction error"),
     _get_default_cv_data("CV extraction failed")}

(* Unit u asked HR to review something *)
AskedReview(u) ==
    \E e \in EffectsOf(u) :
        e.e = "send" /\ e.to = hr_user_id /\ Contains(e.msg, "APPROVE ")

(* C16. Ingestion failures leave no partial registration: every stored
   registration holds an extracted profile (the analyzer neither raised nor
   returned no candidate), and a unit whose download failed has stored
   nothing, has not asked HR to review and has sent its requester an error
   message. *)
NoPartialRegistration ==
    /\ \A R \in DOMAIN pending_registrations :
          pending_registrations[R].cv_data \notin FailedExtractions
    /\ \A u \in Units :
          /\ units[u].pc \in {"cv_apology", "done"}
          /\ units[u].file_type = "cv"
          /\ \E e \in EffectsOf(u) : e.e = "download"
          /\ \A e \in EffectsOf(u) : e.e /= "write"
          => /\ \A e \in EffectsOf(u) : e.e /= "store"
             /\ ~AskedReview(u)
             /\ \E e \in EffectsOf(u) :
                   e.e = "send" /\ e.to = SenderOf(u) /\ e.msg = "cv_error"

(* C17. CV extraction cache: the analyzer is called at most once for a
   stored path, and the registrations made from one path hold the same
   profile. *)
AnalyzerOncePerPath ==
    /\ \A i \in 1..Len(analyzer_calls), j \in 1..Len(analyzer_calls) :
          i /= j => analyzer_calls[i] /= analyzer_calls[j]
    /\ \A R \in DOMAIN pending_registrations,
          Q \in DOMAIN pending_registrations :
          pending_registrations[R].cv_path = pending_registrations[Q].cv_path
          => pending_registrations[R].cv_data
                = pending_registrations[Q].cv_data

(* C18. received -> pending_review: a unit whose CV extraction completed
   stores the registration under a fresh id R, then tells the candidate the
   submission is pending, then sends HR the message that carries R and the
   instructions APPROVE R and DECLINE R, which read back as commands for
   R. *)
ReceivedToPendingReview ==
    /\ \A u \in Units :
          units[u].action = "cv_received"
          => LET R == units[u].registration_id
                 es == units[u].effects
             IN  /\ Len(es) \in {4, 5}
                 /\ es[1].e = "download" /\ es[2].e = "write"
                 /\ es[3] = Effect("store", SenderOf(u), "", R)
                 /\ es[4] = Effect("send", SenderOf(u), "pending", R)
                 /\ R \in DOMAIN pending_registrations
                 /\ pending_registrations[R].user_id_zalo = SenderOf(u)
                 /\ pending_registrations[R].cv_path = units[u].cv_path
                 /\ Len(es) = 5
                    => /\ es[5].e = "send" /\ es[5].to = hr_user_id
                       /\ es[5].reg = R
                       /\ Contains(es[5].msg, "Registration ID: " \o R)
                       /\ Contains(es[5].msg, "APPROVE " \o R)
                       /\ Contains(es[5].msg, "DECLINE " \o R)
                       /\ Strip(AfterFirstSpace("APPROVE " \o R)) = R
    /\ \A u \in Units, v \in Units :
          /\ u /= v
          /\ units[u].action = "cv_received"
          /\ units[v].action = "cv_received"
          => units[u].registration_id /= units[v].registration_id

(* Two uploads taken to review, under the ids r1 and r2 *)
TwoPendingWitness ==
    \E u \in Units, v \in Units :
        /\ units[u].pc = "done" /\ units[v].pc = "done"
        /\ units[u].registration_id = "r1" /\ units[v].registration_id = "r2"
        /\ Len(units[u].effects) = 5 /\ Len(units[v].effects) = 5
        /\ units[v].effects[5].msg = notify_hr("r2")
        /\ DOMAIN pending_registrations = {"r1", "r2"}

----------------------------------------------------------------------------
(* C19. APPROVE R or DECLINE R for an id R that is not in the registration
   store sends HR the "registration not found" reply and changes nothing:
   the unit's only effect is that reply, the registration store and the
   users table are as before, nothing is sent to a candidate, and the unit
   then ends without a further effect. *)
FoundAbsent(u) ==
    /\ units[u].pc = "scheduled" /\ units'[u].pc /= "scheduled"
    /\ IsCommand(u)'
    /\ units'[u].registration_id \notin DOMAIN pending_registrations

UnknownRegistrationStep ==
    \A u \in Units :
        /\ FoundAbsent(u)
           => /\ units'[u].effects =
                    <<NotFoundReply(units'[u].registration_id)>>
              /\ units'[u].pc = "return"
              /\ ~units'[u].error
              /\ pending_registrations' = pending_registrations
              /\ users' = users
        /\ units[u].pc = "return" /\ units'[u] /= units[u]
           => /\ units'[u] = [units[u] EXCEPT !.pc = "done"]
              /\ pending_registrations' = pending_registrations
              /\ users' = users

UnknownRegistration == [][UnknownRegistrationStep]_vars

(* An APPROVE and a DECLINE of an id that was never stored, both answered
   "not found", with the store and the users table still empty *)
NeverStoredWitness ==
    \E u \in Units, v \in Units :
        /\ units[u].action = "hr_approved" /\ units[u].pc = "done"
        /\ units[v].action = "hr_declined" /\ units[v].pc = "done"
        /\ ~units[u].after_removal /\ ~units[v].after_removal
        /\ units[u].effects = <<NotFoundReply("r1")>>
        /\ units[v].effects = <<NotFoundReply("r1")>>
        /\ next_uuid = 1
        /\ DOMAIN pending_registrations = {}
        /\ users = <<>>

(* C20. pending_review -> approved: an APPROVE R that finds R pending, with
   the database working and no account of the same email, creates one
   account from the stored profile, then removes R, then notifies the
   candidate of the approval, then confirms to HR: these four effects, in
   this order, are what the finished unit did. *)
FoundPending(u) ==
    /\ units[u].action = "hr_approved"
    /\ units[u].pc = "done"
    /\ units[u].effects /= <<NotFoundReply(units[u].registration_id)>>

(* The database failed, or create_user refused the profile with a
   ValueError (an account of that email exists, or the email has no "@") *)
CreationRefused(u) ==
    \/ units[u].raised = "SQLAlchemyError"
    \/ \E e \in EffectsOf(u) : e.e = "send" /\ e.msg = "create_failed"

ApprovedTransition ==
    \A u \in Units :
        FoundPending(u) /\ ~CreationRefused(u)
        => LET R == units[u].registration_id
               effects == units[u].effects
           IN  /\ Len(effects) = 4
               /\ effects[1].e = "create_user" /\ effects[1].reg = R
               /\ effects[2].e = "remove" /\ effects[2].reg = R
               /\ effects[3] = Effect("send", effects[1].to, "approved", R)
               /\ effects[4] = Effect("send", hr_user_id,
                                      "approved_confirm", R)
               /\ Cardinality(AccountCreations(R)) = 1

----------------------------------------------------------------------------
(* C21. Retry-friendly approval: an APPROVE R that finds R pending and
   creates no account although the database works (the profile is a
   duplicate, or its email is missing or malformed) leaves R in the store,
   sends the candidate nothing and sends HR the failure message. *)
ValidationFailed(u) ==
    /\ FoundPending(u)
    /\ units[u].raised /= "SQLAlchemyError"
    /\ ~\E e \in EffectsOf(u) : e.e = "create_user"

RetryFriendlyApproval ==
    \A u \in Units :
        ValidationFailed(u)
        => /\ units[u].effects =
                 <<Effect("send", hr_user_id, "create_failed",
                          units[u].registration_id)>>
           /\ ~Removed(u, units[u].registration_id)

(* C22. pending_review -> declined: a DECLINE R that finds R pending removes
   R, then notifies the candidate of the decline, then confirms to HR, and
   creates no account: the unit's effects are these three, in this order,
   as far as it has run. *)
DeclineEffects(to, R) ==
    <<Effect("remove", to, "", R), Effect("send", to, "declined", R),
      Effect("send", hr_user_id, "declined_confirm", R)>>

DeclinedPending(u) ==
    /\ units[u].action = "hr_declined"
    /\ units[u].pc /= "scheduled"
    /\ units[u].effects /= <<NotFoundReply(units[u].registration_id)>>

DeclinedTransition ==
    \A u \in Units :
        DeclinedPending(u)
        => LET R == units[u].registration_id
               effects == units[u].effects
               n == IF units[u].pc = "declined" THEN 2 ELSE 3
           IN  /\ units[u].pc \in {"declined", "last_send", "done"}
               /\ Len(effects) = n
               /\ effects = SubSeq(DeclineEffects(effects[1].to, R), 1, n)
               /\ ~units[u].error
               /\ AccountCreations(R) = {}

(* A decline run to its end: the registration gone, the candidate who
   uploaded it told, HR confirmed, no account *)
DeclinedWitness ==
    \E u \in Units, v \in Units :
        /\ units[v].action = "cv_received" /\ units[v].pc = "done"
        /\ units[u].action = "hr_declined" /\ units[u].pc = "done"
        /\ units[u].registration_id = units[v].registration_id
        /\ units[u].effects =
              DeclineEffects(units[v].user_id, units[v].registration_id)
        /\ DOMAIN pending_registrations = {}
        /\ users = <<>>
        /\ Len(units) = 2

----------------------------------------------------------------------------
(* C23. Notification failure never rolls back state: a registration a unit
   stored is in the store until a unit removes it, a registration a unit
   removed is gone, an account a unit created is in the users table; and
   every step of a unit leaves the unit and the stores exactly as it would
   have had every send of the step been accepted by the platform, so the
   remaining steps of the transition run whatever the sends return. *)
ChangesStand ==
    \A u \in Units : \A e \in EffectsOf(u) :
        /\ e.e = "store"
           => e.reg \in DOMAIN pending_registrations \/ e.reg \in RemovedIds
        /\ e.e = "remove" => e.reg \notin DOMAIN pending_registrations
        /\ e.e = "create_user"
           => \E i \in 1..Len(users) : users[i].email = e.msg

AsIfAccepted(u, w) ==
    /\ units'[u] = w.unit
    /\ pending_registrations' = w.pending
    /\ users' = w.users
    /\ processed_events' = w.processed_events
    /\ cv_cache' = w.cv_cache
    /\ files' = w.files

SendResultUnused ==
    \A u \in Units :
        units'[u] /= units[u]
        => IF units[u].pc = "scheduled"
           THEN \E db \in DatabaseOutcomes(units[u].request) :
                    AsIfAccepted(u, handle_webhook_event(World(u), TRUE, db))
           ELSE \E dl \in DownloadOutcomes(units[u].pc),
                   analysis \in AnalyzerOutcomes(units[u].pc),
                   ext \in ServiceOutcomes(units[u].pc) :
                    AsIfAccepted(u, resumed(World(u), TRUE, dl, analysis,
                                            ext, now))

NotificationFailureStands == []ChangesStand /\ [][SendResultUnused]_vars

(* The only unit there is received a CV and ran to its end although a send
   of it failed: the registration is stored, HR was asked to review it *)
SendFailedWitness ==
    /\ send_failed
    /\ Len(units) = 1
    /\ units[1].action = "cv_received" /\ units[1].pc = "done"
    /\ units[1].registration_id \in DOMAIN pending_registrations
    /\ \E e \in EffectsOf(1) :
          e.e = "send" /\ e.to = hr_user_id
              /\ e.msg = notify_hr(units[1].registration_id)

----------------------------------------------------------------------------
(* C24. HR command parsing: a text is processed as an approve (decline)
   command iff HR sent it and, trimmed, it starts in any letter case with
   APPROVE (DECLINE) followed by a space; the registration id is the rest of
   the line, trimmed; it is never empty; and it finds a registration only if
   it is, letter for letter, the id under which one was stored. *)
Trimmed(u) == Strip(Get(units[u].request.text, ""))

HasVerb(t, verb) ==
    /\ Len(t) > Len(verb)
    /\ Upper(SubSeq(t, 1, Len(verb))) = verb
    /\ CharAt(t, Len(verb) + 1) = " "

RestOfLine(t) == Strip(SubSeq(t, 9, Len(t)))

StoredIds ==
    UNION {{e.reg : e \in {f \in EffectsOf(u) : f.e = "store"}} : u \in Units}

CommandParsing ==
    \A u \in Units :
        /\ units[u].pc /= "scheduled"
        /\ Get(units[u].request.event_name, "") = "user_send_text"
        => LET t == Trimmed(u)
               fromHr == Get(units[u].request.sender, None) = hr_user_id
               R == units[u].registration_id
           IN  /\ units[u].action = "hr_approved"
                     <=> fromHr /\ HasVerb(t, "APPROVE")
               /\ units[u].action = "hr_declined"
                     <=> fromHr /\ HasVerb(t, "DECLINE")
               /\ IsCommand(u) => R = RestOfLine(t) /\ R /= ""
               /\ IsCommand(u) /\ R \notin StoredIds
                  => units[u].effects = <<NotFoundReply(R)>>
               /\ IsCommand(u) /\ R \in StoredIds
                  => units[u].effects /= <<NotFoundReply(R)>>

(* A decline in lower case with blanks around the id removed the
   registration stored as r1 *)
LowerCaseDeclineWitness ==
    \E u \in Units :
        /\ units[u].request.text = " decline  r1\t"
        /\ units[u].action = "hr_declined"
        /\ units[u].registration_id = "r1"
        /\ Removed(u, "r1")

----------------------------------------------------------------------------
(* C25. An event whose event_name is none of user_send_text, user_send_file,
   user_send_image, follow is processed to an "ignored" outcome without
   error and without effect: its unit sends no message, and the step that
   processes it leaves the registration store, the CV cache, the users
   table and the stored files as they were. *)
Unrecognized(u) == Get(units[u].request.event_name, "") \notin EventNames

IgnoredOutcome ==
    \A u \in Units :
        Unrecognized(u) /\ units[u].pc /= "scheduled"
        => /\ units[u].action = "ignored"
           /\ units[u].pc = "done"
           /\ ~units[u].error
           /\ units[u].effects = <<>>

IgnoredStep ==
    \A u \in Units :
        Unrecognized(u) /\ units'[u] /= units[u]
        => /\ pending_registrations' = pending_registrations
           /\ cv_cache' = cv_cache
           /\ users' = users
           /\ files' = files
           /\ send_failed' = send_failed

UnrecognizedIgnored == []IgnoredOutcome /\ [][IgnoredStep]_vars

(* Both unrecognized events processed while a registration is pending: it
   is still pending, though one of them carried HR's approval of it *)
IgnoredWitness ==
    \E u \in Units, v \in Units :
        /\ u /= v
        /\ Unrecognized(u) /\ units[u].action = "ignored"
        /\ Unrecognized(v) /\ units[v].action = "ignored"
        /\ units[v].request.text = "APPROVE r1"
        /\ "r1" \in DOMAIN pending_registrations
        /\ \E c \in Units :
              units[c].action = "cv_received" /\ DeliveryOf(c) < DeliveryOf(v)
                  /\ units[c].pc = "done"

----------------------------------------------------------------------------
(* C26. Each cv_received outcome creates exactly one registration, under an
   id that no other creation was given, whether or not the registration of
   that id was removed since; no other outcome creates one; so the number
   of registrations ever created is the number of cv_received outcomes. *)
Stores(u) == {i \in 1..Len(units[u].effects) : units[u].effects[i].e = "store"}

CvReceived == {u \in Units : units[u].action = "cv_received"}

OneRegistrationPerCv ==
    /\ \A u \in Units :
          Cardinality(Stores(u)) = (IF u \in CvReceived THEN 1 ELSE 0)
    /\ \A u \in CvReceived : \A v \in CvReceived :
          u /= v => units[u].registration_id /= units[v].registration_id
    /\ \A u \in CvReceived : \A i \in Stores(u) :
          units[u].effects[i].reg = units[u].registration_id
    /\ Cardinality(StoredIds) = Cardinality(CvReceived)
    /\ DOMAIN pending_registrations = StoredIds \ RemovedIds

(* Two registrations created, the first of them declined: the second has
   another id and is pending *)
TwoIdsWitness ==
    /\ Cardinality(CvReceived) = 2
    /\ Cardinality(StoredIds) = 2
    /\ Cardinality(RemovedIds) = 1
    /\ Cardinality(DOMAIN pending_registrations) = 1
    /\ \A u \in Units : units[u].pc = "done"

----------------------------------------------------------------------------
(* C27. A registration is removed, never mutated: a step leaves the record
   of every registration that is in the store before and after it as it
   was, and a stored record carries the file path and the channel id of the
   unit that created it. *)
RecordKept ==
    \A R \in DOMAIN pending_registrations :
        R \in DOMAIN pending_registrations'
        => pending_registrations'[R] = pending_registrations[R]

RecordAsCreated ==
    \A R \in DOMAIN pending_registrations :
        \E u \in CvReceived :
            /\ units[u].registration_id = R
            /\ pending_registrations[R].cv_path = units[u].cv_path
            /\ pending_registrations[R].user_id_zalo = units[u].user_id

RemovedNeverMutated == []RecordAsCreated /\ [][RecordKept]_vars

(* The first registration is still pending, as it was created, after an
   approval of it failed and a second upload of the same file was extracted
   and registered *)
RecordKeptWitness ==
    \E a \in Units :
        /\ units[a].action = "hr_approved" /\ units[a].registration_id = "r1"
        /\ units[a].pc = "done" /\ units[a].error
        /\ DOMAIN pending_registrations = {"r1", "r2"}
        /\ Len(analyzer_calls) = 2
        /\ analyzer_calls[1] = analyzer_calls[2]
        /\ pending_registrations["r1"].cv_path = analyzer_calls[1]

----------------------------------------------------------------------------
(* C28. Only a successful approval or a decline removes a registration: a
   step after which a registration is no longer in the store is a step of a
   unit that processes DECLINE of it, or APPROVE of it with the account
   created, and that records the removal; every other step (of any other
   unit, a delivery, a duplicate, the pruning of the dedup set, a not-found
   or failed APPROVE) keeps every pending registration pending. *)
Decides(u, R) ==
    /\ units'[u] /= units[u]
    /\ units'[u].registration_id = R
    /\ \/ units'[u].action = "hr_declined"
       \/ /\ units'[u].action = "hr_approved"
          /\ \E i \in 1..Len(units'[u].effects) :
                units'[u].effects[i].e = "create_user"
                    /\ units'[u].effects[i].reg = R
    /\ \E i \in 1..Len(units'[u].effects) :
          units'[u].effects[i].e = "remove" /\ units'[u].effects[i].reg = R

OnlyDecisionRemovesStep ==
    \A R \in DOMAIN pending_registrations :
        R \notin DOMAIN pending_registrations' => \E u \in Units : Decides(u, R)

OnlyDecisionRemoves == [][OnlyDecisionRemovesStep]_vars

(* The registration is still pending after an approval of it failed, more
   than an hour passed and a later delivery pruned the dedup set *)
StillPendingWitness ==
    /\ Len(units) = 3
    /\ units[1].action = "cv_received" /\ units[1].registration_id = "r1"
    /\ units[2].action = "hr_approved" /\ units[2].error
    /\ units[3].pc = "done"
    /\ now > TTL
    /\ units[1].event_id \notin DOMAIN processed_events
    /\ "r1" \in DOMAIN pending_registrations

----------------------------------------------------------------------------
(* C29. Acknowledge-then-process: the step that answers an accepted delivery
   schedules the unit of the event and does not start it, touches no store
   but the dedup set and no other unit; the answer says "ok" with the
   event's key; and no later step, whatever the unit does, changes an
   answer given. *)
Acknowledged ==
    \A u \in Units :
        \E i \in Deliveries :
            /\ deliveries[i].unit = u
            /\ deliveries[i].http = 200 /\ deliveries[i].status = "ok"
            /\ deliveries[i].event_id = units[u].event_id

AcknowledgeStep ==
    /\ \A i \in Deliveries : deliveries'[i] = deliveries[i]
    /\ Len(deliveries') > Len(deliveries)
       => /\ Len(deliveries') = Len(deliveries) + 1
          /\ \A u \in Units : units'[u] = units[u]
          /\ pending_registrations' = pending_registrations
          /\ cv_cache' = cv_cache /\ files' = files /\ users' = users
          /\ analyzer_calls' = analyzer_calls /\ send_failed' = send_failed
          /\ LET d == deliveries'[Len(deliveries')] IN
             IF d.unit = 0 THEN units' = units
             ELSE /\ d.unit = Len(units) + 1 /\ Len(units') = d.unit
                  /\ units'[d.unit].pc = "scheduled"
                  /\ units'[d.unit].effects = <<>>
                  /\ units'[d.unit].request = d.request
                  /\ d.event_id \in DOMAIN processed_events'
    /\ Len(deliveries') = Len(deliveries) => Len(units') = Len(units)

AcknowledgeThenProcess == []Acknowledged /\ [][AcknowledgeStep]_vars

(* Three deliveries answered "ok": the unit of the first failed, the unit of
   the second succeeded, the unit of the third has not started *)
AcknowledgedWitness ==
    /\ Len(deliveries) = 3 /\ Len(units) = 3
    /\ \A i \in Deliveries : deliveries[i].status = "ok" /\ deliveries[i].unit = i
    /\ units[1].pc = "done" /\ units[1].error
    /\ units[2].pc = "done" /\ ~units[2].error /\ units[2].effects /= <<>>
    /\ units[3].pc = "scheduled"

----------------------------------------------------------------------------
(* C30. Stored file names are collision-resistant: no two units write the
   same path, so no upload overwrites the file of another. *)
WrittenPaths(u) ==
    {e.msg : e \in {f \in EffectsOf(u) : f.e \in {"write", "write_partial"}}}

DistinctStoredPaths ==
    \A u \in Units : \A v \in Units :
        u /= v => WrittenPaths(u) \cap WrittenPaths(v) = {}

----------------------------------------------------------------------------
(* C31. Text dispatch is exclusive and ordered: a processed text event took
   exactly one of three branches (HR command, registration instructions,
   chatbot conversation); a text of HR that starts with APPROVE or DECLINE
   and a space took the first and neither of the others; a text that is,
   ignoring case, a registration keyword got the instructions and did not
   reach the chatbot. *)
TookCommand(u) == IsCommand(u)

TookInstructions(u) ==
    \E e \in EffectsOf(u) : e.e = "send" /\ e.msg = "registration_instructions"

(* The chatbot branch: the chatbot was called, or the search of the vector
   store that precedes the call raised *)
TookChatbot(u) ==
    \/ \E e \in EffectsOf(u) : e.e = "chatbot"
    \/ units[u].raised = "QdrantError"

IsKeyword(t) == Upper(t) \in {"REGISTER", "DANG KY"}

TextDispatch ==
    \A u \in Units :
        /\ units[u].pc /= "scheduled"
        /\ Get(units[u].request.event_name, "") = "user_send_text"
        => LET t == Trimmed(u)
               fromHr == Get(units[u].request.sender, None) = hr_user_id
               command == fromHr /\ (HasVerb(t, "APPROVE")
                                        \/ HasVerb(t, "DECLINE"))
           IN  /\ Cardinality({b \in {1, 2, 3} :
                      \/ b = 1 /\ TookCommand(u)
                      \/ b = 2 /\ TookInstructions(u)
                      \/ b = 3 /\ TookChatbot(u)}) = 1
               /\ command => TookCommand(u)
               /\ ~command /\ IsKeyword(t)
                  => /\ TookInstructions(u)
                     /\ units[u].action = "registration_initiated"
                     /\ units[u].effects =
                           <<Effect("send", units[u].user_id,
                                    "registration_instructions", "")>>

(* HR's text " Register ", no command, got the instructions and nothing
   else *)
KeywordWitness ==
    \E u \in Units :
        /\ units[u].request.text = " Register "
        /\ units[u].request.sender = hr_user_id
        /\ units[u].pc = "done"
        /\ TookInstructions(u) /\ ~TookChatbot(u) /\ ~TookCommand(u)

----------------------------------------------------------------------------
(* C32. An image event sends its sender one "not supported" message and a
   follow event sends its follower one welcome message, and that is all
   either does: the steps of their units leave the registration store, the
   CV cache and the stored files as they were. *)
EventOf(u) == Get(units[u].request.event_name, "")

OneReply ==
    \A u \in Units :
        units[u].pc /= "scheduled"
        => /\ EventOf(u) = "user_send_image"
              => /\ units[u].effects =
                       <<Effect("send", units[u].request.sender,
                                "image_not_supported", "")>>
                 /\ ~units[u].error
           /\ EventOf(u) = "follow"
              => /\ units[u].effects =
                       <<Effect("send", units[u].request.follower,
                                "welcome", "")>>
                 /\ ~units[u].error

OneReplyStep ==
    \A u \in Units :
        /\ EventOf(u) \in {"user_send_image", "follow"}
        /\ units'[u] /= units[u]
        => /\ pending_registrations' = pending_registrations
           /\ cv_cache' = cv_cache
           /\ files' = files
           /\ users' = users

ImageAndFollow == []OneReply /\ [][OneReplyStep]_vars

(* An image and a follow processed to their ends while a registration is
   pending and its file is stored *)
ImageAndFollowWitness ==
    \E u \in Units, v \in Units :
        /\ EventOf(u) = "user_send_image" /\ units[u].pc = "done"
        /\ EventOf(v) = "follow" /\ units[v].pc = "done"
        /\ DOMAIN pending_registrations = {"r1"}
        /\ files /= {}

----------------------------------------------------------------------------
(* C33. Every processing unit eventually ends, whatever its external calls
   return and whatever the other units do; no external call is made a
   second time by a unit (one download, one chatbot call, at most one
   analyzer call per saved file), and a step of a unit changes no other
   unit. *)
CallsOf(u, kind) ==
    {i \in 1..Len(units[u].effects) : units[u].effects[i].e = kind}

NoRetry ==
    /\ \A u \in Units :
          /\ Cardinality(CallsOf(u, "download")) <= 1
          /\ Cardinality(CallsOf(u, "chatbot")) <= 1
    /\ Len(analyzer_calls)
          <= Cardinality({u \in Units : CallsOf(u, "write") /= {}})

NoWaiting ==
    \A u \in Units : \A v \in Units :
        units'[u] /= units[u] /\ v /= u => units'[v] = units[v]

AllDone == \A u \in Units : units[u].pc = "done"

UnitsTerminate ==
    /\ []<>AllDone
    /\ []NoRetry
    /\ [][NoWaiting]_vars

(* Every unit has ended, the upload's after a failed download and the chat's
   after the chatbot gave no answer, each having made its call once *)
TerminatedWitness ==
    /\ Len(units) = 2
    /\ \A u \in Units : units[u].pc = "done"
    /\ \E u \in Units :
          /\ units[u].file_type = "cv" /\ units[u].error
          /\ Cardinality(CallsOf(u, "download")) = 1
          /\ CallsOf(u, "write") = {}
    /\ \E u \in Units :
          /\ EventOf(u) = "user_send_text"
          /\ Cardinality(CallsOf(u, "chatbot")) = 1
          /\ \E e \in EffectsOf(u) : e.msg = "chatbot_fallback"

----------------------------------------------------------------------------
(* C34. Only HR decides by chat: a text of a sender other than HR, whatever
   it says, is never taken as a command, removes no registration, creates
   no account and sends HR no not-found reply; the steps of its unit leave
   the registration store and the accounts as they were. *)
NotFromHr(u) ==
    /\ EventOf(u) = "user_send_text"
    /\ Get(units[u].request.sender, None) /= hr_user_id

NoDecisionEffects(u) ==
    /\ ~IsCommand(u)
    /\ units[u].registration_id = ""
    /\ \A e \in EffectsOf(u) :
          /\ e.e \notin {"remove", "create_user"}
          /\ ~(e.e = "send" /\ e.to = hr_user_id)
          /\ e.msg /= "not_found"

NotFromHrStep ==
    \A u \in Units :
        NotFromHr(u) /\ units'[u] /= units[u]
        => /\ pending_registrations' = pending_registrations
           /\ users' = users

OnlyHrDecides ==
    /\ [](\A u \in Units : NotFromHr(u) => NoDecisionEffects(u))
    /\ [][NotFromHrStep]_vars

(* The candidate's "DECLINE r1" went to the chatbot and r1 is still
   pending *)
CandidateCommandWitness ==
    /\ Len(units) = 2
    /\ units[1].registration_id = "r1"
    /\ NotFromHr(2) /\ units[2].pc = "done"
    /\ units[2].request.text = "DECLINE r1"
    /\ TookChatbot(2)
    /\ "r1" \in DOMAIN pending_registrations

----------------------------------------------------------------------------
(* C35. Outcome notifications go to the submitter: every approval or decline
   message about a registration R is addressed to the sender of the file
   event whose unit stored R, and every account created from R carries the
   profile and the file path stored with R, whatever other registration was
   stored or decided meanwhile. *)
SubmitterOf(R) ==
    {Get(units[v].request.sender, None) :
        v \in {x \in Units :
                  /\ EventOf(x) = "user_send_file"
                  /\ \E e \in EffectsOf(x) : e.e = "store" /\ e.reg = R}}

OutcomeToSubmitter ==
    \A u \in Units : \A e \in EffectsOf(u) :
        /\ e.e = "send" /\ e.msg \in {"approved", "declined"}
           => SubmitterOf(e.reg) = {e.to}
        /\ e.e = "create_user"
           => /\ SubmitterOf(e.reg) = {e.to}
              /\ \E v \in Units : \E i \in 1..Len(users) :
                    /\ units[v].registration_id = e.reg
                    /\ units[v].action = "cv_received"
                    /\ users[i].cv = units[v].cv_path
                    /\ users[i].email = e.msg

(* c2's registration r1 was declined while c1's registration r2 was pending:
   the decline went to c2 and nothing was sent to c1 about it *)
DeclineToSubmitterWitness ==
    \E u \in Units, v \in Units, x \in Units :
        /\ units[v].registration_id = "r1" /\ units[v].user_id = "c2"
        /\ units[x].registration_id = "r2" /\ units[x].user_id = "c1"
        /\ units[v].action = "cv_received" /\ units[x].action = "cv_received"
        /\ units[u].action = "hr_declined" /\ units[u].pc = "done"
        /\ Effect("send", "c2", "declined", "r1") \in EffectsOf(u)
        /\ \A e \in EffectsOf(u) : e.to /= "c1"
        /\ DOMAIN pending_registrations = {"r2"}

----------------------------------------------------------------------------
(* C36. Chat commands and REST calls act on one store: of all the commands
   and calls for one id, in any interleaving, at most one removes the
   registration and reports success; a REST call answers success exactly
   when it removed the registration; and a command or call whose id is not
   in the store when it looks leaves the store and the accounts as they
   were and does not succeed. *)
IsRestCall(u) == units[u].action \in {"rest_approve", "rest_decline"}

Succeeded(u, R) == units[u].registration_id = R /\ Removed(u, R)

RestAnswer(u) ==
    IF units[u].error THEN 500
    ELSE IF units[u].pc = "done" THEN 200 ELSE 0

AtMostOneSucceeds ==
    /\ \A R \in RegistrationIds :
          Cardinality({u \in Units : Succeeded(u, R)}) <= 1
    /\ \A u \in Units :
          IsRestCall(u)
          => /\ RestAnswer(u) = 200 => Succeeded(u, units[u].registration_id)
             /\ RestAnswer(u) = 500 => units[u].effects = <<>>
             /\ AccountCreations(units[u].registration_id) = {}

(* The step in which unit u looks its id up *)
LooksUp(u) ==
    /\ u \in 1..Len(units')
    /\ units'[u].action
          \in {"hr_approved", "hr_declined", "rest_approve", "rest_decline"}
    /\ u \in Units => units[u].pc = "scheduled"

AbsentIdStep ==
    \A u \in 1..MaxDeliveries :
        LooksUp(u) /\ units'[u].registration_id
                          \notin DOMAIN pending_registrations
        => /\ pending_registrations' = pending_registrations
           /\ users' = users
           /\ \A i \in 1..Len(units'[u].effects) :
                 units'[u].effects[i].e \notin {"remove", "create_user"}

OneStore == []AtMostOneSucceeds /\ [][AbsentIdStep]_vars

(* The REST call declined r1 and answered success; HR's chat DECLINE r1
   found nothing; a REST call for r9 was refused *)
RestThenChatWitness ==
    \E u \in Units, v \in Units :
        /\ units[u].action = "rest_decline" /\ RestAnswer(u) = 200
        /\ Succeeded(u, "r1")
        /\ units[v].action = "hr_declined" /\ units[v].pc = "done"
        /\ units[v].effects = <<NotFoundReply("r1")>>
        /\ pending_registrations = [k \in {} |-> 0]

----------------------------------------------------------------------------
(* C37. A file event is decided by its first attachment of type "file": the
   unit works on that attachment's name and on no other, classifies it for
   the sender's role and stops there whatever the class, downloads at most
   that one file and stores at most one registration; an event without such
   an attachment ends with no download, no message, no file and no
   registration. *)
IsFirstFile(attachments, i) ==
    /\ i \in 1..Len(attachments)
    /\ attachments[i].type = "file"
    /\ \A j \in 1..(i - 1) : attachments[j].type /= "file"

FileEventRan(u) ==
    /\ EventOf(u) = "user_send_file"
    /\ units[u].pc /= "scheduled"
    /\ units[u].raised /= "SQLAlchemyError"

DecidedByFirstFile ==
    \A u \in Units :
        FileEventRan(u)
        => LET attachments == units[u].request.attachments IN
           /\ (\A i \in 1..Len(attachments) : attachments[i].type /= "file")
              => /\ units[u].pc = "done" /\ units[u].effects = <<>>
                 /\ units[u].file_name = "" /\ units[u].action = ""
                 /\ pending_registrations = [k \in {} |-> 0]
                 /\ files = {}
           /\ \A i \in 1..Len(attachments) :
                 IsFirstFile(attachments, i)
                 => /\ units[u].file_name = attachments[i].name
                    /\ \A e \in EffectsOf(u) :
                          /\ e.e = "download" => e.msg = attachments[i].name
                          /\ e.e = "write"
                             => EndsWith(e.msg, "_" \o attachments[i].name)
                    /\ Cardinality(CallsOf(u, "download")) <= 1
                    /\ Cardinality(Stores(u)) <= 1
                    /\ attachments[i].name = "notes.txt"
                       => /\ units[u].file_type = "unknown"
                          /\ Len(units[u].effects) = 1
                          /\ units[u].effects[1].e = "send"
                    /\ attachments[i].name = "resume.pdf"
                          /\ units[u].user_id = "m1"
                       => /\ units[u].file_type = "unknown"
                          /\ CallsOf(u, "download") = {}

(* An image, a file of no known kind and then a CV: the candidate was told
   the file is not supported, and the CV behind it was never downloaded *)
LaterCvIgnoredWitness ==
    /\ Len(units) = 1 /\ units[1].pc = "done"
    /\ units[1].request.attachments
          = <<Attachment("image", "photo.png"), Attachment("file", "notes.txt"),
              Attachment("file", "resume.pdf")>>
    /\ units[1].user_id = "c1"
    /\ units[1].file_name = "notes.txt"
    /\ CallsOf(1, "download") = {}
    /\ pending_registrations = [k \in {} |-> 0]

----------------------------------------------------------------------------
(* C38. The cache holds no default profile: an extraction that ends with the
   default "Unknown" profile (the analyzer raised, or gave no candidate)
   does not raise, called the analyzer for the saved path and leaves the
   cache as it was; so every extraction of a path that ended with the
   default profile was a call of the analyzer, a second one for the same
   path included. *)
CacheOnlySuccess == \A p \in DOMAIN cv_cache : cv_cache[p] \notin FailedExtractions

(* The extractions that ended with the default profile: the units whose
   registration was stored with it *)
EndedWithDefault(p) ==
    {u \in Units :
        /\ units[u].cv_path = p /\ Stores(u) /= {}
        /\ units[u].registration_id \in DOMAIN pending_registrations
        /\ pending_registrations[units[u].registration_id].cv_data
              \in FailedExtractions}

AnalyzerCallsFor(p) ==
    {i \in 1..Len(analyzer_calls) : analyzer_calls[i] = p}

DefaultNotCachedStep ==
    \A u \in Units :
        /\ u \notin EndedWithDefault(units[u].cv_path)
        /\ u \in EndedWithDefault(units[u].cv_path)'
        => /\ cv_cache' = cv_cache
           /\ analyzer_calls' = Append(analyzer_calls, units'[u].cv_path)
           /\ units'[u].raised = "" /\ ~units'[u].error
           /\ units'[u].action = "cv_received"

FailureNotCached ==
    /\ []CacheOnlySuccess
    /\ [](\A u \in Units :
            LET p == units[u].cv_path IN
            Cardinality(AnalyzerCallsFor(p))
                >= Cardinality(EndedWithDefault(p)))
    /\ [][DefaultNotCachedStep]_vars

(* Two uploads saved under one path; the analyzer gave no candidate for the
   first and was called again for the second *)
AnalyzedAgainWitness ==
    /\ Len(units) = 2
    /\ units[1].cv_path = units[2].cv_path
    /\ EndedWithDefault(units[1].cv_path) = {1, 2}
    /\ analyzer_calls = <<units[1].cv_path, units[1].cv_path>>
    /\ \E R \in DOMAIN pending_registrations :
          pending_registrations[R].cv_data.description = "CV extraction failed"
    /\ cv_cache = [k \in {} |-> 0]

----------------------------------------------------------------------------
(* C39. The key of a follow event is "follow", its timestamp and an empty
   sender id, whoever the follower is; so a follow event delivered within
   the hour after an accepted follow event of the same timestamp is answered
   as already processed and gets no unit, its follower being another one or
   not. *)
IsFollow(i) == Get(deliveries[i].request.event_name, "") = "follow"

FollowKeyWithoutFollower ==
    /\ \A i \in Deliveries :
          IsFollow(i) /\ Accepted(i)
          => /\ deliveries[i].event_id
                   = "follow_" \o deliveries[i].request.timestamp \o "_"
             /\ units[deliveries[i].unit].event_id = deliveries[i].event_id
    /\ \A i \in Deliveries : \A j \in Deliveries :
          /\ i < j /\ IsFollow(i) /\ IsFollow(j) /\ Accepted(i)
          /\ deliveries[i].request.timestamp = deliveries[j].request.timestamp
          /\ deliveries[j].at - deliveries[i].at <= TTL
          => Rejected(j)

(* c1's follow was accepted and c2's, of the same timestamp, dropped: c1 was
   welcomed and c2 never was *)
SecondFollowerDroppedWitness ==
    /\ Len(deliveries) = 2 /\ Len(units) = 1
    /\ deliveries[1].request = FollowOf("c1", "100") /\ Accepted(1)
    /\ deliveries[2].request = FollowOf("c2", "100") /\ Rejected(2)
    /\ units[1].pc = "done"
    /\ units[1].effects = <<Effect("send", "c1", "welcome", "")>>

----------------------------------------------------------------------------
(* C40. A duplicate delivery changes nothing: the step that answers it
   schedules no unit, touches no store, and leaves every key that stays in
   the dedup set, its own among them, with the time it was marked at (the
   keys that leave are the ones marked more than an hour before); so the
   hour of a key runs from its acceptance, and a delivery made more than an
   hour after the last acceptance is accepted however recent the last
   duplicate is. *)
DuplicateAnswered ==
    /\ Len(deliveries') = Len(deliveries) + 1
    /\ deliveries'[Len(deliveries')].unit = 0
    /\ deliveries'[Len(deliveries')].message = "Event already processed"

DuplicateStep ==
    DuplicateAnswered
    => LET key == generate_event_id(deliveries'[Len(deliveries')].request) IN
       /\ units' = units
       /\ UNCHANGED <<pending_registrations, cv_cache, files, users,
                      next_uuid, analyzer_calls, send_failed, now>>
       /\ key \in DOMAIN processed_events /\ key \in DOMAIN processed_events'
       /\ DOMAIN processed_events' \subseteq DOMAIN processed_events
       /\ \A k \in DOMAIN processed_events' :
             processed_events'[k] = processed_events[k]
       /\ \A k \in (DOMAIN processed_events) \ DOMAIN processed_events' :
             processed_events[k] < now - TTL

WindowFromAcceptance ==
    \A i \in Deliveries, j \in Deliveries, k \in Deliveries :
        /\ i < j /\ j < k
        /\ Keyed(i) /\ Keyed(j) /\ Keyed(k)
        /\ KeyOf(i) = KeyOf(j) /\ KeyOf(j) = KeyOf(k)
        /\ Accepted(i) /\ Rejected(j)
        /\ \A a \in Deliveries : i < a /\ a < k /\ KeyOf(a) = KeyOf(i)
                                     => ~Accepted(a)
        /\ deliveries[k].at - deliveries[i].at > TTL
        => Accepted(k)

DuplicateNoEffect == []WindowFromAcceptance /\ [][DuplicateStep]_vars

(* Accepted, redelivered at the end of its hour and rejected, redelivered
   just after the hour and accepted: the duplicate did not extend the hour *)
WindowNotExtendedWitness ==
    /\ Len(deliveries) = 3
    /\ KeyOf(1) = KeyOf(2) /\ KeyOf(2) = KeyOf(3)
    /\ Accepted(1) /\ Rejected(2) /\ Accepted(3)
    /\ deliveries[1].at = 0
    /\ deliveries[2].at = TTL
    /\ deliveries[3].at = TTL + 1
    /\ processed_events[KeyOf(3)] = TTL + 1
====
